---------------------------- MODULE Spec2Model ----------------------------
(***************************************************************************)
(* Broker trade import and normalization pipeline of TradeVerse:           *)
(* instrument catalog, instrument mapper, P&L engines and the CSV          *)
(* importer.                                                               *)
(*                                                                         *)
(* Conventions of the model                                                *)
(*  - a Python str is a sequence of one-character strings;                 *)
(*  - Optional[T] is a sequence of length 0 (None) or 1 (the value);       *)
(*  - a dict is a record or a function; a missing key is a missing field;  *)
(*  - a float score or confidence is an integer count of 1/Unit;           *)
(*  - a float price, size or amount of money is the exact rational         *)
(*    <<n, d>> in lowest terms with d > 0; round(x, k) rounds it to k      *)
(*    decimals, a tie going to the even neighbour.                         *)
(***************************************************************************)
EXTENDS Integers, Sequences, FiniteSets, TLC

VARIABLES
    instruments,    \* InstrumentCatalog._instruments
    symbol_index,   \* InstrumentCatalog._symbol_index
    alias_index,    \* InstrumentCatalog._alias_index
    brokers,        \* InstrumentMapper._brokers
    fuzzyCache,     \* the lru_cache of InstrumentCatalog._fuzzy_score
    mapCall,        \* the last call of map_symbol: its arguments and result
    firstCall,      \* history: an earlier call of map_symbol, kept for comparison
    pnlArgs,        \* the arguments of the pending call of a P&L engine
    pnlCall,        \* what the P&L engine returned for pnlArgs
    importArgs,     \* the importer and the source of the pending import
    importCall,     \* what CSVImporter.parse returned for importArgs
    type_index,     \* InstrumentCatalog._type_index: type -> instruments
    reloadCall,     \* the reload() in progress, if any: its position and what it loaded
    lookupCall,     \* the last catalog lookup: operation, argument, result
    parseCall,      \* the CSVImporter.parse in progress, if any: the rows left, row_num, trades
    cancelRequested, \* a request to cancel the import in progress, if any: what was parsed by then
    apiImporter,    \* the OANDA or Binance importer constructed, if any
    network,        \* the HTTP requests issued so far, in order
    connCall,       \* the result of the last test_connection, if any
    database,   \* the committed rows of imported_trade_sources and trades
    uploads,   \* the upload requests in progress, per worker
    csvImporter    \* the importer instance that preview and parse are called on

vars == <<instruments, symbol_index, alias_index, brokers, fuzzyCache,
          mapCall, firstCall, pnlArgs, pnlCall, importArgs, importCall,
          type_index, reloadCall, lookupCall, parseCall, cancelRequested,
          apiImporter, network, connCall, database, uploads, csvImporter>>

None == <<>>
Some(x) == <<x>>
IsNone(o) == o = <<>>
Get(d, k, default) == IF k \in DOMAIN d THEN d[k] ELSE default

Unit == 10 ^ 6

Max(S) == CHOOSE x \in S : \A y \in S : y <= x
Abs(x) == IF x < 0 THEN -x ELSE x

(***************************************************************************)
(* Strings                                                                 *)
(***************************************************************************)
LowerChars == <<"a", "b", "c", "d", "e", "f", "g", "h", "i", "j", "k", "l", "m", "n", "o", "p", "q", "r", "s", "t", "u", "v", "w", "x", "y", "z">>
UpperChars == <<"A", "B", "C", "D", "E", "F", "G", "H", "I", "J", "K", "L", "M", "N", "O", "P", "Q", "R", "S", "T", "U", "V", "W", "X", "Y", "Z">>
\* the characters of the model in code-point order
CodePoints == <<" ", "#", "$", "+", ",", "-", ".", "/", "0", "1", "2", "3", "4", "5", "6", "7", "8", "9", ":", ";">> \o UpperChars \o <<"_">> \o LowerChars

IndexOf(c, seq) == CHOOSE i \in 1..Len(seq) : seq[i] = c
Chars == {CodePoints[i] : i \in 1..Len(CodePoints)}
\* str.upper() and str.lower() of one character, and its code-point rank
UpperOf == [c \in Chars |-> IF \E i \in 1..26 : LowerChars[i] = c
                            THEN UpperChars[IndexOf(c, LowerChars)] ELSE c]
LowerOf == [c \in Chars |-> IF \E i \in 1..26 : UpperChars[i] = c
                            THEN LowerChars[IndexOf(c, UpperChars)] ELSE c]
RankOf == [c \in Chars |-> IndexOf(c, CodePoints)]
Letters == {UpperChars[i] : i \in 1..26} \cup {LowerChars[i] : i \in 1..26}
ToUpperChar(c) == UpperOf[c]
ToLowerChar(c) == LowerOf[c]
StrUpper(s) == [i \in 1..Len(s) |-> UpperOf[s[i]]]
StrLower(s) == [i \in 1..Len(s) |-> LowerOf[s[i]]]
IsAlpha(c) == c \in Letters
IsSpace(c) == c = " "

RECURSIVE LStrip(_)
LStrip(s) == IF s # <<>> /\ IsSpace(Head(s)) THEN LStrip(Tail(s)) ELSE s
RECURSIVE RStrip(_)
RStrip(s) == IF s # <<>> /\ IsSpace(s[Len(s)])
             THEN RStrip(SubSeq(s, 1, Len(s) - 1)) ELSE s
StrStrip(s) == RStrip(LStrip(s))

StartsWith(s, p) == Len(p) <= Len(s) /\ SubSeq(s, 1, Len(p)) = p
EndsWith(s, p) == Len(p) <= Len(s) /\ SubSeq(s, Len(s) - Len(p) + 1, Len(s)) = p
Contains(s, p) == \E i \in 0..(Len(s) - Len(p)) : SubSeq(s, i + 1, i + Len(p)) = p

\* s < t in Python's string order
StrLess(s, t) ==
    \/ Len(s) < Len(t) /\ SubSeq(t, 1, Len(s)) = s
    \/ \E i \in 1..Len(s) :
          /\ i <= Len(t)
          /\ SubSeq(s, 1, i - 1) = SubSeq(t, 1, i - 1)
          /\ RankOf[s[i]] < RankOf[t[i]]

\* str.replace(old, new), old non-empty
RECURSIVE StrReplace(_, _, _)
StrReplace(s, old, new) ==
    IF s = <<>> THEN <<>>
    ELSE IF StartsWith(s, old)
         THEN new \o StrReplace(SubSeq(s, Len(old) + 1, Len(s)), old, new)
         ELSE <<Head(s)>> \o StrReplace(Tail(s), old, new)

\* re.sub(r'[_/\-\.\s]', '', s)
IsSeparator(c) == c \in {"_", "/", "-", ".", " "}
StripSeparators(s) == SelectSeq(s, LAMBDA c : ~IsSeparator(c))

\* re.sub(suffix + '$', '', s, flags=re.IGNORECASE) for a literal suffix
StripSuffixCI(s, suffix) ==
    IF EndsWith(StrUpper(s), StrUpper(suffix))
    THEN SubSeq(s, 1, Len(s) - Len(suffix)) ELSE s

RECURSIVE StripSuffixes(_, _)
StripSuffixes(s, suffixes) ==
    IF suffixes = <<>> THEN s
    ELSE StripSuffixes(StripSuffixCI(s, Head(suffixes)), Tail(suffixes))

\* round(num / den) to the nearest integer, ties to even; den > 0
RoundHalfEven(num, den) ==
    LET q == num \div den
        r == num % den
    IN  IF 2 * r < den THEN q
        ELSE IF 2 * r > den THEN q + 1
        ELSE IF q % 2 = 0 THEN q ELSE q + 1

(***************************************************************************)
(* Floats as exact rationals <<n, d>>, d > 0, in lowest terms.             *)
(***************************************************************************)
RECURSIVE GCD(_, _)
GCD(a, b) == IF b = 0 THEN a ELSE GCD(b, a % b)

\* n / d in lowest terms, for d # 0
RatOver(n, d, g) == IF d < 0 THEN <<(-n) \div g, (-d) \div g>> ELSE <<n \div g, d \div g>>
Rat(n, d) == RatOver(n, d, GCD(Abs(n), Abs(d)))
RatAdd(x, y) == Rat(x[1] * y[2] + y[1] * x[2], x[2] * y[2])
RatSub(x, y) == Rat(x[1] * y[2] - y[1] * x[2], x[2] * y[2])
RatNeg(x) == <<-x[1], x[2]>>
RatMul(x, y) == Rat(x[1] * y[1], x[2] * y[2])
\* x / y for y # 0
RatDiv(x, y) == Rat(x[1] * y[2], x[2] * y[1])
RatLess(x, y) == x[1] * y[2] < y[1] * x[2]
RatLeq(x, y) == x[1] * y[2] <= y[1] * x[2]
RatAbs(x) == <<Abs(x[1]), x[2]>>
Zero == <<0, 1>>
\* round(x, k) with scale = 10 ^ k
RatRoundBy(x, scale, g) == Rat(RoundHalfEven(x[1] * (scale \div g), x[2] \div g), scale)
RatRound(x, scale) == RatRoundBy(x, scale, GCD(x[2], scale))

(***************************************************************************)
(* difflib.SequenceMatcher(None, a, b).ratio(): the sizes of the matching  *)
(* blocks, found by taking the longest common block (earliest in a, then   *)
(* earliest in b) and recursing to its left and to its right.  The strings *)
(* are far shorter than the 200 characters at which autojunk starts.       *)
(***************************************************************************)
RECURSIVE CommonLen(_, _, _, _, _, _)
CommonLen(a, b, i, j, ahi, bhi) ==
    IF i > ahi \/ j > bhi THEN 0
    ELSE IF a[i] # b[j] THEN 0
    ELSE 1 + CommonLen(a, b, i + 1, j + 1, ahi, bhi)

RECURSIVE MatchingChars(_, _, _, _, _, _)
MatchingChars(a, b, alo, ahi, blo, bhi) ==
    IF alo > ahi \/ blo > bhi THEN 0
    ELSE LET cands == (alo..ahi) \X (blo..bhi)
             K == [p \in cands |-> CommonLen(a, b, p[1], p[2], ahi, bhi)]
             kmax == Max({K[p] : p \in cands})
         IN  IF kmax = 0 THEN 0
             ELSE LET best == CHOOSE p \in cands :
                                /\ K[p] = kmax
                                /\ \A q \in cands : K[q] = kmax =>
                                      \/ p[1] < q[1]
                                      \/ p[1] = q[1] /\ p[2] <= q[2]
                  IN  kmax
                      + MatchingChars(a, b, alo, best[1] - 1, blo, best[2] - 1)
                      + MatchingChars(a, b, best[1] + kmax, ahi, best[2] + kmax, bhi)

\* ratio() as the pair <<2 * M, T>>
SequenceRatio(a, b) ==
    <<2 * MatchingChars(a, b, 1, Len(a), 1, Len(b)), Len(a) + Len(b)>>

(***************************************************************************)
(* Instrument catalog (app/services/instrument_catalog.py)                 *)
(***************************************************************************)
\* The instrument seed data (data/instruments.json): input of the program.
SeedInstruments == <<
    [symbol |-> <<"E", "U", "R", "U", "S", "D">>, display_name |-> <<"E", "u", "r", "o", " ", "D", "o", "l", "l", "a", "r">>, type |-> "forex",
     aliases |-> <<<<"E", "U", "R", "/", "U", "S", "D">>>>, pip_or_tick_size |-> <<1, 10000>>,
     tick_value |-> <<10, 1>>, contract_size |-> <<100000, 1>>],
    [symbol |-> <<"X", "A", "U", "U", "S", "D">>, display_name |-> <<"G", "o", "l", "d", " ", "S", "p", "o", "t">>, type |-> "commodity",
     aliases |-> <<<<"G", "O", "L", "D">>, <<"X", "A", "U">>>>, pip_or_tick_size |-> <<1, 100>>,
     tick_value |-> <<1, 1>>, contract_size |-> <<100, 1>>],
    [symbol |-> <<"U", "S", "5", "0", "0">>, display_name |-> <<"U", "S", " ", "5", "0", "0">>, type |-> "index",
     aliases |-> <<<<"S", "P", "X", "5", "0", "0">>>>, pip_or_tick_size |-> <<1, 1>>,
     tick_value |-> <<1, 1>>, contract_size |-> <<1, 1>>],
    [symbol |-> <<"B", "T", "C", "U", "S", "D">>, type |-> "crypto", contract_size |-> <<1, 1>>],
    [symbol |-> <<"A", "A", "P", "L">>, display_name |-> <<"A", "p", "p", "l", "e">>, type |-> "stock"] >>

PopularSymbols == <<
    <<"E", "U", "R", "U", "S", "D">>, <<"G", "B", "P", "U", "S", "D">>, <<"U", "S", "D", "J", "P", "Y">>, <<"X", "A", "U", "U", "S", "D">>, <<"U", "S", "5", "0", "0">>, <<"U", "S", "1", "0", "0">>, <<"U", "S", "3", "0">>,
    <<"B", "T", "C", "U", "S", "D">>, <<"E", "T", "H", "U", "S", "D">>, <<"A", "A", "P", "L">>, <<"M", "S", "F", "T">>, <<"G", "O", "O", "G", "L">>, <<"A", "M", "Z", "N">>, <<"T", "S", "L", "A">>,
    <<"G", "E", "R", "4", "0">>, <<"U", "K", "1", "0", "0">>, <<"J", "P", "N", "2", "2", "5">>, <<"U", "S", "O", "I", "L">>, <<"N", "A", "T", "G", "A", "S">> >>

\* _build_indexes: a later instrument or alias overwrites an earlier one
RECURSIVE BuildSymbolIndex(_)
BuildSymbolIndex(insts) ==
    IF insts = <<>> THEN <<>>
    ELSE LET last == insts[Len(insts)]
         IN  (StrUpper(last.symbol) :> last)
             @@ BuildSymbolIndex(SubSeq(insts, 1, Len(insts) - 1))

RECURSIVE AliasEntries(_, _)
AliasEntries(symbol, aliases) ==
    IF aliases = <<>> THEN <<>>
    ELSE (StrUpper(aliases[Len(aliases)]) :> symbol)
         @@ AliasEntries(symbol, SubSeq(aliases, 1, Len(aliases) - 1))

RECURSIVE BuildAliasIndex(_)
BuildAliasIndex(insts) ==
    IF insts = <<>> THEN <<>>
    ELSE LET last == insts[Len(insts)]
         IN  AliasEntries(StrUpper(last.symbol), Get(last, "aliases", <<>>))
             @@ BuildAliasIndex(SubSeq(insts, 1, Len(insts) - 1))

\* _build_indexes, the type index: the instruments of each type in file order
RECURSIVE BuildTypeIndex(_)
BuildTypeIndex(insts) ==
    IF insts = <<>> THEN <<>>
    ELSE LET last == insts[Len(insts)]
             inst_type == Get(last, "type", "unknown")
             before == BuildTypeIndex(SubSeq(insts, 1, Len(insts) - 1))
         IN  (inst_type :> Append(Get(before, inst_type, <<>>), last)) @@ before

\* self._type_index.get(inst_type, []).copy()
get_by_type(inst_type) == Get(type_index, inst_type, <<>>)

CatalogSuffixes == {<<".", "M">>, <<".", "P", "R", "O">>, <<".", "E", "C", "N">>, <<".", "R", "A", "W">>, <<"M", "I", "C", "R", "O">>, <<"M", "I", "N", "I">>}

\* re.sub(r'(\.M|\.PRO|\.ECN|\.RAW|MICRO|MINI)$', '', s, flags=re.IGNORECASE)
StripCatalogSuffix(s) ==
    IF \E suf \in CatalogSuffixes : EndsWith(StrUpper(s), suf)
    THEN LET suf == CHOOSE x \in CatalogSuffixes : EndsWith(StrUpper(s), x)
         IN  SubSeq(s, 1, Len(s) - Len(suf))
    ELSE s

\* the end of normalize_symbol: the canonical symbol of a known symbol or alias
NormalizedLookup(normalized) ==
    IF normalized \in DOMAIN symbol_index THEN normalized
    ELSE IF normalized \in DOMAIN alias_index THEN alias_index[normalized]
    ELSE normalized

normalize_symbol(symbol) ==
    IF symbol = <<>> THEN <<>>
    ELSE NormalizedLookup(StripCatalogSuffix(StripSeparators(StrStrip(StrUpper(symbol)))))

\* dict.get(key) of the symbol index
SymbolIndexGet(key) ==
    IF key \in DOMAIN symbol_index THEN Some(symbol_index[key]) ELSE None

\* the strategies of resolve_symbol: exact, alias, normalized
ResolveKeys(upper, normalized) ==
    IF upper \in DOMAIN symbol_index THEN Some(symbol_index[upper])
    ELSE IF upper \in DOMAIN alias_index THEN SymbolIndexGet(alias_index[upper])
    ELSE IF normalized \in DOMAIN symbol_index THEN Some(symbol_index[normalized])
    ELSE IF normalized \in DOMAIN alias_index THEN SymbolIndexGet(alias_index[normalized])
    ELSE None

resolve_symbol(symbol) == ResolveKeys(StrStrip(StrUpper(symbol)), normalize_symbol(symbol))

\* the dict get_metadata returns for a resolved instrument
MetadataOf(found) ==
    IF IsNone(found) THEN None
    ELSE Some([symbol |-> found[1].symbol,
               display_name |-> Get(found[1], "display_name", found[1].symbol),
               type |-> Get(found[1], "type", "unknown"),
               pip_or_tick_size |-> Get(found[1], "pip_or_tick_size", <<1, 10000>>),
               tick_value |-> Get(found[1], "tick_value", <<10, 1>>),
               contract_size |-> Get(found[1], "contract_size", <<100000, 1>>),
               price_decimals |-> Get(found[1], "price_decimals", 5),
               notes |-> Get(found[1], "notes", <<>>)])

get_metadata(symbol) == MetadataOf(resolve_symbol(symbol))

\* _fuzzy_score under lru_cache: the ratio as <<2 * M, T>>, from the cache when
\* the key is cached
fuzzy_score(cache, s1, s2) ==
    IF <<s1, s2>> \in DOMAIN cache THEN cache[<<s1, s2>>]
    ELSE SequenceRatio(StrLower(s1), StrLower(s2))

\* the cache after a call of _fuzzy_score(s1, s2); the least recently used
\* entry would leave at maxsize=1000 entries, a size no run of the model reaches
CachePut(cache, s1, s2) ==
    IF <<s1, s2>> \in DOMAIN cache THEN cache
    ELSE (<<s1, s2>> :> SequenceRatio(StrLower(s1), StrLower(s2))) @@ cache

Scored(score, match_type, scored) ==
    [score |-> score, match_type |-> match_type, scored |-> scored]

\* the fuzzy tier: a ratio of at least 0.5 scores ratio * 0.6
FuzzyTier(fuzzy) ==
    IF 2 * fuzzy[1] >= fuzzy[2]
    THEN Scored((fuzzy[1] * 6 * Unit) \div (10 * fuzzy[2]), "fuzzy", TRUE)
    ELSE Scored(0, "none", TRUE)

\* the if/elif chain of the search loop for one candidate
ScoreTiers(symbol, display, aliases, query_upper, query_normalized, include_fuzzy, cache) ==
    IF symbol = query_upper \/ symbol = query_normalized
    THEN Scored(Unit, "exact", FALSE)
    ELSE IF StartsWith(symbol, query_upper)
    THEN Scored((90 * Unit) \div 100, "startswith", FALSE)
    ELSE IF Contains(symbol, query_upper) \/ Contains(display, query_upper)
    THEN Scored((70 * Unit) \div 100, "contains", FALSE)
    ELSE IF \E i \in 1..Len(aliases) :
               aliases[i] = query_upper \/ aliases[i] = query_normalized
    THEN Scored((85 * Unit) \div 100, "alias_exact", FALSE)
    ELSE IF \E i \in 1..Len(aliases) : StartsWith(aliases[i], query_upper)
    THEN Scored((75 * Unit) \div 100, "alias_startswith", FALSE)
    ELSE IF \E i \in 1..Len(aliases) : Contains(aliases[i], query_upper)
    THEN Scored((65 * Unit) \div 100, "alias_contains", FALSE)
    ELSE IF include_fuzzy
    THEN FuzzyTier(fuzzy_score(cache, query_upper, symbol))
    ELSE Scored(0, "none", FALSE)

UpperAll(strings) == [i \in 1..Len(strings) |-> StrUpper(strings[i])]

\* one candidate of the search loop: its score and match type, and whether the
\* fuzzy score was computed
CandidateScore(instrument, query_upper, query_normalized, include_fuzzy, cache) ==
    ScoreTiers(StrUpper(instrument.symbol),
               StrUpper(Get(instrument, "display_name", <<>>)),
               UpperAll(Get(instrument, "aliases", <<>>)),
               query_upper, query_normalized, include_fuzzy, cache)

\* the end of one pass of the search loop; acc = [results, seen, cache]
SearchStep(acc, instrument, symbol, query_upper, c) ==
    IF symbol \in acc.seen THEN acc
    ELSE [results |-> IF c.score > 0
                      THEN Append(acc.results,
                                  ("_score" :> c.score) @@ ("_match_type" :> c.match_type)
                                  @@ instrument)
                      ELSE acc.results,
          seen |-> IF c.score > 0 THEN acc.seen \cup {symbol} ELSE acc.seen,
          cache |-> IF c.scored THEN CachePut(acc.cache, query_upper, symbol)
                    ELSE acc.cache]

RECURSIVE SearchLoop(_, _, _, _, _)
SearchLoop(candidates, query_upper, query_normalized, include_fuzzy, acc) ==
    IF candidates = <<>> THEN acc
    ELSE SearchLoop(Tail(candidates), query_upper, query_normalized, include_fuzzy,
                    SearchStep(acc, Head(candidates), StrUpper(Head(candidates).symbol),
                               query_upper,
                               CandidateScore(Head(candidates), query_upper,
                                              query_normalized, include_fuzzy, acc.cache)))

\* the sort key (-_score, symbol)
ResultBefore(x, y) ==
    \/ x["_score"] > y["_score"]
    \/ x["_score"] = y["_score"] /\ StrLess(x.symbol, y.symbol)

\* list.sort: stable, so equal keys keep their order
RECURSIVE SortResults(_)
SortResults(results) ==
    IF results = <<>> THEN <<>>
    ELSE LET i == CHOOSE k \in 1..Len(results) :
                     /\ \A m \in 1..Len(results) : ~ResultBefore(results[m], results[k])
                     /\ \A m \in 1..(k - 1) : ResultBefore(results[k], results[m])
         IN  <<results[i]>>
             \o SortResults(SubSeq(results, 1, i - 1) \o SubSeq(results, i + 1, Len(results)))

\* results[offset:offset + limit]
Slice(results, offset, limit) ==
    SubSeq(results, offset + 1, IF offset + limit < Len(results)
                                THEN offset + limit ELSE Len(results))

RECURSIVE PopularLoop(_)
PopularLoop(symbols) ==
    IF symbols = <<>> THEN <<>>
    ELSE IF Head(symbols) \in DOMAIN symbol_index
         THEN <<("_score" :> (50 * Unit) \div 100) @@ ("_match_type" :> "popular")
                @@ symbol_index[Head(symbols)]>> \o PopularLoop(Tail(symbols))
         ELSE PopularLoop(Tail(symbols))

get_popular(limit, offset) == Slice(PopularLoop(PopularSymbols), offset, limit)

\* r['_total'] = total for the page
WithTotal(paginated, total) ==
    [i \in 1..Len(paginated) |-> ("_total" :> total) @@ paginated[i]]

\* the end of search: sort, paginate
SearchFinish(sorted, offset, limit, cache) ==
    [results |-> WithTotal(Slice(sorted, offset, limit), Len(sorted)), cache |-> cache]

SearchSorted(acc, offset, limit) ==
    SearchFinish(SortResults(acc.results), offset, limit, acc.cache)

\* search(query, limit, offset, include_fuzzy) with no type filter:
\* [results, cache]
search(query, limit, offset, include_fuzzy, cache) ==
    IF query = <<>> THEN [results |-> get_popular(limit, offset), cache |-> cache]
    ELSE SearchSorted(SearchLoop(instruments, StrStrip(StrUpper(query)),
                                 normalize_symbol(query), include_fuzzy,
                                 [results |-> <<>>, seen |-> {}, cache |-> cache]),
                      offset, limit)

(***************************************************************************)
(* Instrument mapper (app/mappers/instrument_mapper.py)                    *)
(***************************************************************************)
\* A symbol_patterns regex is a sequence of tokens, each a literal character
\* or a capture group ([A-Z]{n}), matched by re.match under re.IGNORECASE; a
\* regex that does not compile raises re.error.
Lit(c) == [lit |-> c]
Grp(n) == [grp |-> n]
Regex(toks, anchored) == [valid |-> TRUE, toks |-> toks, anchored |-> anchored]
BadRegex == [valid |-> FALSE, toks |-> <<>>, anchored |-> FALSE]

\* The broker profiles (data/brokers.json): input of the program.
OANDA == <<"o", "a", "n", "d", "a">>
MT4_GENERIC == <<"m", "t", "4", "_", "g", "e", "n", "e", "r", "i", "c">>
UNKNOWN_BROKER == <<"u", "n", "k", "n", "o", "w", "n", "_", "b", "r", "o", "k", "e", "r">>

SeedBrokers ==
    (OANDA :> [id |-> OANDA,
               symbol_mappings |-> << <<<<"E", "U", "R", "_", "U", "S", "D">>, <<"E", "U", "R", "U", "S", "D">>>> >>,
               symbol_patterns |-> <<
                   [pattern |-> BadRegex, canonical |-> <<"$", "1">>],
                   [pattern |-> Regex(<<Grp(3), Lit("_"), Grp(3)>>, TRUE),
                    canonical |-> <<"$", "1", "$", "2">>] >>])
    @@ (MT4_GENERIC :> [id |-> MT4_GENERIC])

BrokerIds == {OANDA, MT4_GENERIC, UNKNOWN_BROKER}

\* the groups of re.match(regex, s, re.IGNORECASE), or None
RECURSIVE MatchToks(_, _, _, _, _)
MatchToks(toks, anchored, s, pos, groups) ==
    IF toks = <<>>
    THEN IF anchored /\ pos # Len(s) + 1 THEN None ELSE Some(groups)
    ELSE LET t == Head(toks)
         IN  IF "lit" \in DOMAIN t
             THEN IF pos <= Len(s) /\ ToUpperChar(s[pos]) = ToUpperChar(t.lit)
                  THEN MatchToks(Tail(toks), anchored, s, pos + 1, groups)
                  ELSE None
             ELSE IF pos + t.grp - 1 <= Len(s)
                     /\ \A i \in pos..(pos + t.grp - 1) : IsAlpha(s[i])
                  THEN MatchToks(Tail(toks), anchored, s, pos + t.grp,
                                 Append(groups, SubSeq(s, pos, pos + t.grp - 1)))
                  ELSE None

re_match(regex, s) == MatchToks(regex.toks, regex.anchored, s, 1, <<>>)

Digits == <<"0", "1", "2", "3", "4", "5", "6", "7", "8", "9">>

\* for i, group in enumerate(match.groups(), 1): replace '$i' by group.upper()
RECURSIVE Substitute(_, _, _)
Substitute(canonical, groups, i) ==
    IF i > Len(groups) THEN canonical
    ELSE Substitute(IF groups[i] # <<>>
                    THEN StrReplace(canonical, <<"$", Digits[i + 1]>>, StrUpper(groups[i]))
                    ELSE canonical,
                    groups, i + 1)

MapperSuffixes == <<<<".", "M">>, <<".", "P", "R", "O">>, <<".", "E", "C", "N">>, <<".", "R", "A", "W">>, <<".", "S", "T", "P">>,
                    <<"M", "I", "C", "R", "O">>, <<"M", "I", "N", "I">>, <<".", "C">>, <<".", "I">>, <<".", "S">>>>

\* InstrumentMapper._normalize_symbol
mapper_normalize(symbol) ==
    StripSuffixes(StripSeparators(StrStrip(StrUpper(symbol))), MapperSuffixes)

MappingResult(canonical, original, broker_id, confidence, match_type, metadata, warnings) ==
    [canonical_symbol |-> canonical, original_symbol |-> original,
     broker_id |-> broker_id, confidence |-> confidence, match_type |-> match_type,
     instrument_metadata |-> metadata, warnings |-> warnings]

\* dict lookup in the ordered symbol_mappings
RECURSIVE MappingsFind(_, _, _)
MappingsFind(mappings, key, fold) ==
    IF mappings = <<>> THEN None
    ELSE IF (IF fold THEN StrUpper(Head(mappings)[1]) = StrUpper(key)
             ELSE Head(mappings)[1] = key)
         THEN Some(Head(mappings)[2])
         ELSE MappingsFind(Tail(mappings), key, fold)

\* the result of the direct lookup from the exact and the folded key
DirectResult(exact, folded, broker_symbol, broker_id) ==
    IF ~IsNone(exact)
    THEN Some(MappingResult(exact[1], broker_symbol, broker_id, Unit, "direct",
                            get_metadata(exact[1]), None))
    ELSE IF ~IsNone(folded)
    THEN Some(MappingResult(folded[1], broker_symbol, broker_id, (95 * Unit) \div 100,
                            "direct_case_insensitive", get_metadata(folded[1]), None))
    ELSE None

try_direct_mapping(broker_symbol, broker, broker_id) ==
    DirectResult(MappingsFind(Get(broker, "symbol_mappings", <<>>), broker_symbol, FALSE),
                 MappingsFind(Get(broker, "symbol_mappings", <<>>), broker_symbol, TRUE),
                 broker_symbol, broker_id)

\* the result of one pattern whose template resolved to an instrument
PatternResult(instrument, broker_symbol, broker_id) ==
    MappingResult(instrument.symbol, broker_symbol, broker_id, (90 * Unit) \div 100,
                  "pattern", get_metadata(instrument.symbol), None)

\* the templated symbol of a pattern that matches, resolved in the catalog
PatternResolve(config, match) ==
    IF IsNone(match) THEN None
    ELSE resolve_symbol(Substitute(Get(config, "canonical", <<>>), match[1], 1))

\* one pattern_config: the instrument it resolves to, or None
PatternTry(config, pattern, broker_symbol) ==
    IF ~pattern.valid THEN None
    ELSE PatternResolve(config, re_match(pattern, broker_symbol))

RECURSIVE PatternLoop(_, _, _)
PatternFirst(instrument, patterns, broker_symbol, broker_id) ==
    IF IsNone(instrument) THEN PatternLoop(Tail(patterns), broker_symbol, broker_id)
    ELSE Some(PatternResult(instrument[1], broker_symbol, broker_id))

PatternLoop(patterns, broker_symbol, broker_id) ==
    IF patterns = <<>> THEN None
    ELSE PatternFirst(PatternTry(Head(patterns),
                                 Get(Head(patterns), "pattern", Regex(<<>>, FALSE)),
                                 broker_symbol),
                      patterns, broker_symbol, broker_id)

try_pattern_mapping(broker_symbol, broker, broker_id) ==
    PatternLoop(Get(broker, "symbol_patterns", <<>>), broker_symbol, broker_id)

FuzzyWarning(broker_symbol, matched, score) ==
    [msg |-> "Fuzzy matched", original |-> broker_symbol, matched |-> matched,
     score |-> RoundHalfEven(score * 100, Unit)]
UnmappedWarning(broker_symbol) ==
    [msg |-> "Could not map symbol", original |-> broker_symbol]
UnknownBrokerWarning(broker_id) ==
    [msg |-> "Unknown broker", broker |-> broker_id]

\* UnmappedResult with the broker symbol used as it came, not normalized
UnmappedResultAsIs(broker_symbol, broker_id, warnings, normalized) ==
    MappingResult(broker_symbol, broker_symbol, broker_id, (30 * Unit) \div 100,
                  "unmapped", None, Some(Append(warnings, UnmappedWarning(broker_symbol))))

\* the unmapped result that ends _fuzzy_map
UnmappedResult(broker_symbol, broker_id, warnings, normalized) ==
    MappingResult(normalized, broker_symbol, broker_id, (30 * Unit) \div 100,
                  "unmapped", None, Some(Append(warnings, UnmappedWarning(broker_symbol))))

\* FuzzyResult with the search score taken as the confidence, unscaled
FuzzyResultUnscaled(broker_symbol, broker_id, warnings, best, score) ==
    MappingResult(best.symbol, broker_symbol, broker_id, score, "fuzzy",
                  get_metadata(best.symbol),
                  Some(Append(warnings, FuzzyWarning(broker_symbol, best.symbol, score))))

\* the accepted fuzzy match of _fuzzy_map
FuzzyResult(broker_symbol, broker_id, warnings, best, score) ==
    MappingResult(best.symbol, broker_symbol, broker_id, (score * 8) \div 10, "fuzzy",
                  get_metadata(best.symbol),
                  Some(Append(warnings, FuzzyWarning(broker_symbol, best.symbol, score))))

\* the decision of _fuzzy_map on the best search result
FuzzyAccept(broker_symbol, broker_id, warnings, normalized, best, score) ==
    IF score >= (60 * Unit) \div 100
    THEN FuzzyResult(broker_symbol, broker_id, warnings, best, score)
    ELSE UnmappedResult(broker_symbol, broker_id, warnings, normalized)

\* the result of _fuzzy_map from what the search returned
fuzzy_result(broker_symbol, broker_id, warnings, normalized, search_results) ==
    IF search_results # <<>>
    THEN FuzzyAccept(broker_symbol, broker_id, warnings, normalized,
                     search_results[1], Get(search_results[1], "_score", 0))
    ELSE UnmappedResult(broker_symbol, broker_id, warnings, normalized)

FuzzyFound(broker_symbol, broker_id, warnings, normalized, found) ==
    [cache |-> found.cache,
     result |-> fuzzy_result(broker_symbol, broker_id, warnings, normalized, found.results)]

FuzzySearch(broker_symbol, broker_id, warnings, normalized, cache) ==
    FuzzyFound(broker_symbol, broker_id, warnings, normalized,
               search(normalized, 5, 0, TRUE, cache))

\* _fuzzy_map: [result, cache]
fuzzy_map(broker_symbol, broker_id, warnings, cache) ==
    FuzzySearch(broker_symbol, broker_id, warnings, mapper_normalize(broker_symbol), cache)

\* the generic_normalized result of _fallback_map
\* GenericNormalized with the confidence and match type of a known broker
GenericNormalizedAsKnown(instrument, broker_symbol, broker_id, warnings) ==
    MappingResult(instrument.symbol, broker_symbol, broker_id, (85 * Unit) \div 100,
                  "normalized", get_metadata(instrument.symbol), Some(warnings))

\* the result of _fallback_map for a resolved instrument
GenericNormalized(instrument, broker_symbol, broker_id, warnings) ==
    MappingResult(instrument.symbol, broker_symbol, broker_id, (70 * Unit) \div 100,
                  "generic_normalized", get_metadata(instrument.symbol), Some(warnings))

FallbackTiers(instrument, broker_symbol, broker_id, warnings, cache) ==
    IF ~IsNone(instrument)
    THEN [cache |-> cache,
          result |-> GenericNormalized(instrument[1], broker_symbol, broker_id, warnings)]
    ELSE fuzzy_map(broker_symbol, broker_id, warnings, cache)

\* _fallback_map: [result, cache]
fallback_map(broker_symbol, broker_id, warnings, cache) ==
    FallbackTiers(resolve_symbol(mapper_normalize(broker_symbol)), broker_symbol, broker_id,
                  Append(warnings, UnknownBrokerWarning(broker_id)), cache)

\* a warnings list shared by all calls instead of a fresh one per call
KeptWarnings(previous) == previous

\* warnings = [] at the start of map_symbol
NewWarnings(previous) == <<>>

\* NormalizedResult with the confidence of the pattern tier
NormalizedResultAsPattern(instrument, broker_symbol, broker_id, warnings) ==
    MappingResult(instrument.symbol, broker_symbol, broker_id, (90 * Unit) \div 100,
                  "normalized", get_metadata(instrument.symbol),
                  IF warnings # <<>> THEN Some(warnings) ELSE None)

\* the normalized result of map_symbol
NormalizedResult(instrument, broker_symbol, broker_id, warnings) ==
    MappingResult(instrument.symbol, broker_symbol, broker_id, (85 * Unit) \div 100,
                  "normalized", get_metadata(instrument.symbol),
                  IF warnings # <<>> THEN Some(warnings) ELSE None)

\* KnownTiers with the pattern tier tried before the direct lookup
KnownTiersPatternFirst(direct, pattern, instrument, broker_symbol, broker_id, warnings, cache) ==
    IF ~IsNone(pattern) THEN [cache |-> cache, result |-> pattern[1]]
    ELSE IF ~IsNone(direct) THEN [cache |-> cache, result |-> direct[1]]
    ELSE IF ~IsNone(instrument)
    THEN [cache |-> cache,
          result |-> NormalizedResult(instrument[1], broker_symbol, broker_id, warnings)]
    ELSE fuzzy_map(broker_symbol, broker_id, warnings, cache)

\* the tiers of map_symbol for a known broker, in the order they are tried
KnownTiers(direct, pattern, instrument, broker_symbol, broker_id, warnings, cache) ==
    IF ~IsNone(direct) THEN [cache |-> cache, result |-> direct[1]]
    ELSE IF ~IsNone(pattern) THEN [cache |-> cache, result |-> pattern[1]]
    ELSE IF ~IsNone(instrument)
    THEN [cache |-> cache,
          result |-> NormalizedResult(instrument[1], broker_symbol, broker_id, warnings)]
    ELSE fuzzy_map(broker_symbol, broker_id, warnings, cache)

known_broker_map(broker_symbol, broker, broker_id, warnings, cache) ==
    KnownTiers(try_direct_mapping(broker_symbol, broker, broker_id),
               try_pattern_mapping(broker_symbol, broker, broker_id),
               resolve_symbol(mapper_normalize(broker_symbol)),
               broker_symbol, broker_id, warnings, cache)

\* InstrumentMapper.map_symbol: [result, cache]
map_symbol(broker_symbol, broker_id, previousWarnings, cache) ==
    IF broker_id \notin DOMAIN brokers
    THEN fallback_map(broker_symbol, broker_id, NewWarnings(previousWarnings), cache)
    ELSE known_broker_map(broker_symbol, brokers[broker_id], broker_id,
                          NewWarnings(previousWarnings), cache)

\* d[key] = value on a dict kept as the sequence of its items in insertion
\* order: an existing key keeps its position
DictSet(d, key, value) ==
    IF \E i \in 1..Len(d) : d[i].key = key
    THEN [i \in 1..Len(d) |-> IF d[i].key = key THEN [key |-> key, value |-> value]
                              ELSE d[i]]
    ELSE Append(d, [key |-> key, value |-> value])

\* the loop of batch_map: results[symbol] = self.map_symbol(symbol, broker_id)
RECURSIVE BatchMapLoop(_, _, _, _, _)
BatchMapLoop(symbols, broker_id, results, warnings, cache) ==
    IF symbols = <<>> THEN [results |-> results, warnings |-> warnings, cache |-> cache]
    ELSE LET r == map_symbol(Head(symbols), broker_id, warnings, cache)
         IN  BatchMapLoop(Tail(symbols), broker_id,
                          DictSet(results, Head(symbols), r.result),
                          IF IsNone(r.result.warnings) THEN <<>>
                          ELSE r.result.warnings[1],
                          r.cache)

\* InstrumentMapper.batch_map: [results, warnings, cache]
batch_map(symbols, broker_id, warnings, cache) ==
    BatchMapLoop(symbols, broker_id, <<>>, warnings, cache)

\* the entry of a result in the report
ReportEntry(symbol, result) ==
    [original |-> symbol, canonical |-> result.canonical_symbol,
     confidence |-> result.confidence, match_type |-> result.match_type]

ReportEntries(results) ==
    [i \in 1..Len(results) |-> ReportEntry(results[i].key, results[i].value)]

IsUnmappedEntry(entry) == entry.match_type = "unmapped"
IsLowConfidenceEntry(entry) ==
    ~IsUnmappedEntry(entry) /\ entry.confidence < (7 * Unit) \div 10
IsMappedEntry(entry) == ~IsUnmappedEntry(entry) /\ ~IsLowConfidenceEntry(entry)

\* the report built from the buckets
MappingReport(symbols, broker_id, mapped, unmapped, low_confidence) ==
    [broker_id |-> broker_id, total_symbols |-> Len(symbols),
     mapped_count |-> Len(mapped), unmapped_count |-> Len(unmapped),
     low_confidence_count |-> Len(low_confidence),
     mapping_rate |-> IF symbols # <<>> THEN Rat(Len(mapped), Len(symbols)) ELSE Zero,
     mapped |-> mapped, unmapped |-> unmapped, low_confidence |-> low_confidence]

ReportOf(symbols, broker_id, entries) ==
    MappingReport(symbols, broker_id, SelectSeq(entries, IsMappedEntry),
                  SelectSeq(entries, IsUnmappedEntry),
                  SelectSeq(entries, IsLowConfidenceEntry))

\* InstrumentMapper.get_mapping_report: [report, cache]
get_mapping_report(symbols, broker_id, warnings, cache) ==
    LET batch == batch_map(symbols, broker_id, warnings, cache)
    IN  [report |-> ReportOf(symbols, broker_id, ReportEntries(batch.results)),
         cache |-> batch.cache]

(***************************************************************************)
(* P&L engine (app/services/pnl_engine.py)                                 *)
(***************************************************************************)
\* get_instrument_metadata of the catalog module
get_instrument_metadata(symbol) == get_metadata(symbol)

\* the metadata PnLEngine.calculate uses for an instrument the catalog lacks
DefaultMeta ==
    [type |-> "unknown", pip_or_tick_size |-> <<1, 10000>>, tick_value |-> <<10, 1>>,
     contract_size |-> <<100000, 1>>, price_decimals |-> 5]

PnLResult(pnl, pnl_currency, pip_move, points, tick_move, details) ==
    [pnl |-> pnl, pnl_currency |-> pnl_currency, pip_move |-> pip_move,
     points |-> points, tick_move |-> tick_move, details |-> details]

\* PriceDiff without the negation for 'sell': the variant the sign property
\* of the forex branch has to tell apart
PriceDiffUnsigned(entry_price, exit_price, direction) == RatSub(exit_price, entry_price)

\* price_diff = exit_price - entry_price, negated for direction 'sell'
PriceDiff(entry_price, exit_price, direction) ==
    IF direction = "sell" THEN RatNeg(RatSub(exit_price, entry_price))
    ELSE RatSub(exit_price, entry_price)

\* price_diff / tick_size if tick_size else 0
TickMove(price_diff, tick_size) ==
    IF tick_size[1] # 0 THEN RatDiv(price_diff, tick_size) ELSE Zero

\* the contract size after the broker's lot_size_rule for the asset class
LotRule(broker, class, contract_size) ==
    IF ~IsNone(broker) /\ "lot_size_rule" \in DOMAIN broker[1]
    THEN Get(broker[1].lot_size_rule, class, contract_size)
    ELSE contract_size

\* the units of a forex position
ForexUnits(size, size_type, contract_size) ==
    IF size_type = "units" THEN size ELSE RatMul(size, contract_size)

\* the return of _calculate_forex; pip_size is non-zero for every forex
\* instrument of the model (a zero pip size raises ZeroDivisionError)
ForexResult(pip_size, contract_size, units, price_diff, direction, account_currency) ==
    PnLResult(RatRound(RatMul(price_diff, units), 100), account_currency,
              Some(RatRound(RatDiv(price_diff, pip_size), 10)), None,
              Some(RatRound(RatDiv(price_diff, pip_size), 10)),
              [calculation_type |-> "forex", pip_size |-> pip_size,
               contract_size |-> contract_size, units |-> units,
               price_diff |-> price_diff, direction |-> direction])

ForexSized(pip_size, contract_size, size, size_type, price_diff, direction, account_currency) ==
    ForexResult(pip_size, contract_size, ForexUnits(size, size_type, contract_size),
                price_diff, direction, account_currency)

calculate_forex(entry_price, exit_price, size, size_type, direction, meta, broker, account_currency) ==
    ForexSized(Get(meta, "pip_or_tick_size", <<1, 10000>>),
               LotRule(broker, "forex", Get(meta, "contract_size", <<100000, 1>>)),
               size, size_type, PriceDiff(entry_price, exit_price, direction),
               direction, account_currency)

\* Contracts without the division for units: the variant the units case of
\* the index calculation has to tell apart
ContractsAsLots(size, size_type, contract_size) == size

\* the contracts of an index or commodity position
Contracts(size, size_type, contract_size) ==
    IF size_type = "lots" \/ size_type = "contracts" THEN size
    ELSE IF contract_size[1] # 0 THEN RatDiv(size, contract_size) ELSE size

IndexResult(tick_size, tick_value, contracts, price_diff, direction, account_currency) ==
    PnLResult(RatRound(RatMul(RatMul(price_diff, tick_value), contracts), 100),
              account_currency, None, Some(RatRound(price_diff, 100)),
              Some(RatRound(TickMove(price_diff, tick_size), 10)),
              [calculation_type |-> "index", tick_size |-> tick_size,
               tick_value |-> tick_value, contracts |-> contracts,
               price_diff |-> price_diff, direction |-> direction])

calculate_index(entry_price, exit_price, size, size_type, direction, meta, broker, account_currency) ==
    IndexResult(Get(meta, "pip_or_tick_size", <<1, 1>>), Get(meta, "tick_value", <<1, 1>>),
                Contracts(size, size_type,
                          LotRule(broker, "indices", Get(meta, "contract_size", <<1, 1>>))),
                PriceDiff(entry_price, exit_price, direction), direction, account_currency)

CommodityResult(tick_size, tick_value, contract_size, contracts, price_diff, direction, account_currency) ==
    PnLResult(RatRound(RatMul(RatMul(price_diff, contract_size), contracts), 100),
              account_currency, None, Some(RatRound(price_diff, 10000)),
              Some(RatRound(TickMove(price_diff, tick_size), 10)),
              [calculation_type |-> "commodity", tick_size |-> tick_size,
               tick_value |-> tick_value, contract_size |-> contract_size,
               contracts |-> contracts, price_diff |-> price_diff,
               direction |-> direction])

CommoditySized(tick_size, tick_value, contract_size, size, size_type, price_diff, direction, account_currency) ==
    CommodityResult(tick_size, tick_value, contract_size,
                    Contracts(size, size_type, contract_size), price_diff, direction,
                    account_currency)

calculate_commodity(entry_price, exit_price, size, size_type, direction, meta, broker, account_currency) ==
    CommoditySized(Get(meta, "pip_or_tick_size", <<1, 100>>),
                   Get(meta, "tick_value", <<1, 1>>),
                   LotRule(broker, "commodities", Get(meta, "contract_size", <<100, 1>>)),
                   size, size_type, PriceDiff(entry_price, exit_price, direction),
                   direction, account_currency)

\* (price_diff / entry_price * 100) if entry_price else 0
PctMove(price_diff, entry_price) ==
    IF entry_price[1] # 0 THEN RatMul(RatDiv(price_diff, entry_price), <<100, 1>>)
    ELSE Zero

CryptoResult(quantity, tick_size, price_diff, pct_move, direction, account_currency) ==
    PnLResult(RatRound(RatMul(quantity, price_diff), 100), account_currency, None,
              Some(RatRound(pct_move, 100)),
              Some(RatRound(TickMove(price_diff, tick_size), 10)),
              [calculation_type |-> "crypto", quantity |-> quantity,
               price_diff |-> price_diff, pct_move |-> pct_move,
               direction |-> direction])

CryptoMoved(quantity, tick_size, price_diff, entry_price, direction, account_currency) ==
    CryptoResult(quantity, tick_size, price_diff, PctMove(price_diff, entry_price),
                 direction, account_currency)

calculate_crypto(entry_price, exit_price, size, size_type, direction, meta, broker, account_currency) ==
    CryptoMoved(IF size_type = "lots" \/ size_type = "contracts"
                THEN RatMul(size, Get(meta, "contract_size", <<1, 1>>)) ELSE size,
                Get(meta, "pip_or_tick_size", <<1, 100>>),
                PriceDiff(entry_price, exit_price, direction), entry_price, direction,
                account_currency)

StockResult(shares, price_diff, entry_price, direction, account_currency) ==
    PnLResult(RatRound(RatMul(shares, price_diff), 100), account_currency, None,
              Some(RatRound(price_diff, 100)), None,
              [calculation_type |-> "stock", shares |-> shares,
               price_diff |-> price_diff,
               pct_return |-> RatRound(PctMove(price_diff, entry_price), 100),
               direction |-> direction])

calculate_stock(entry_price, exit_price, size, size_type, direction, meta, broker, account_currency) ==
    StockResult(size, PriceDiff(entry_price, exit_price, direction), entry_price,
                direction, account_currency)

GenericResult(quantity, tick_size, price_diff, direction, account_currency) ==
    PnLResult(RatRound(RatMul(quantity, price_diff), 100), account_currency, None,
              Some(RatRound(price_diff, 10000)),
              Some(RatRound(TickMove(price_diff, tick_size), 10)),
              [calculation_type |-> "generic", quantity |-> quantity,
               price_diff |-> price_diff, direction |-> direction])

calculate_generic(entry_price, exit_price, size, size_type, direction, meta, broker, account_currency) ==
    GenericResult(IF size_type = "lots"
                  THEN RatMul(size, Get(meta, "contract_size", <<1, 1>>)) ELSE size,
                  Get(meta, "pip_or_tick_size", <<1, 100>>),
                  PriceDiff(entry_price, exit_price, direction), direction,
                  account_currency)

\* the dispatch of PnLEngine.calculate on the instrument type
Dispatch(inst_type, entry_price, exit_price, size, size_type, trade_direction, meta, broker_profile, account_currency) ==
    IF inst_type = "forex"
    THEN calculate_forex(entry_price, exit_price, size, size_type, trade_direction,
                         meta, broker_profile, account_currency)
    ELSE IF inst_type = "index"
    THEN calculate_index(entry_price, exit_price, size, size_type, trade_direction,
                         meta, broker_profile, account_currency)
    ELSE IF inst_type = "commodity"
    THEN calculate_commodity(entry_price, exit_price, size, size_type, trade_direction,
                             meta, broker_profile, account_currency)
    ELSE IF inst_type = "crypto"
    THEN calculate_crypto(entry_price, exit_price, size, size_type, trade_direction,
                          meta, broker_profile, account_currency)
    ELSE IF inst_type = "stock" \/ inst_type = "etf"
    THEN calculate_stock(entry_price, exit_price, size, size_type, trade_direction,
                         meta, broker_profile, account_currency)
    ELSE calculate_generic(entry_price, exit_price, size, size_type, trade_direction,
                           meta, broker_profile, account_currency)

\* the instrument_meta calculate works with: the one given, else the
\* catalog's, else the default
MetaOrDefault(given, looked_up) ==
    IF ~IsNone(given) THEN given[1]
    ELSE IF ~IsNone(looked_up) THEN looked_up[1]
    ELSE DefaultMeta

CalculateWith(meta, entry_price, exit_price, size, size_type, trade_direction, broker_profile, account_currency) ==
    Dispatch(Get(meta, "type", "unknown"), entry_price, exit_price, size, size_type,
             trade_direction, meta, broker_profile, account_currency)

\* PnLEngine.calculate
calculate(instrument_symbol, entry_price, exit_price, size, size_type, trade_direction, instrument_meta, broker_profile, account_currency) ==
    CalculateWith(MetaOrDefault(instrument_meta, get_instrument_metadata(instrument_symbol)),
                  entry_price, exit_price, size, size_type, trade_direction,
                  broker_profile, account_currency)

\* a Python object and its class, for attribute access
Object(class, value) == [class |-> class, value |-> value]

\* the module-level calculate_pnl, called with keyword arguments: the
\* PnLResult as a dict (result.to_dict())
calculate_pnl(instrument_symbol, entry_price, exit_price, size, size_type, trade_direction, instrument_meta) ==
    Object("dict", calculate(instrument_symbol, entry_price, exit_price, size, size_type,
                             trade_direction, instrument_meta, None, "USD"))

(***************************************************************************)
(* Advanced P&L calculator (app/services/pnl_calculator_advanced.py)       *)
(***************************************************************************)
\* PnLCalculator.__init__
PnLCalculator(instrument_type, pip_size, tick_value, contract_size) ==
    [instrument_type |-> instrument_type, pip_size |-> pip_size,
     tick_value |-> tick_value, contract_size |-> contract_size]

\* _calculate_forex_pnl; pips = price_diff / pip_size, pip_size non-zero
calculate_forex_pnl(self, qty, price_diff) ==
    <<RatRound(RatMul(RatMul(RatDiv(price_diff, self.pip_size),
                             RatMul(RatMul(self.pip_size, self.contract_size), <<10, 1>>)),
                      qty), 100),
      RatRound(RatDiv(price_diff, self.pip_size), 100)>>

calculate_index_pnl(self, price_diff, quantity) ==
    <<RatRound(RatMul(RatMul(price_diff, self.tick_value), quantity), 100),
      RatRound(price_diff, 100)>>

\* _calculate_crypto_pnl and _calculate_stock_pnl: the same body
calculate_stock_pnl(self, price_diff, quantity) ==
    <<RatRound(RatMul(price_diff, quantity), 100),
      RatRound(RatDiv(RatMul(price_diff, quantity), quantity), 100)>>

\* _calculate_commodity_pnl; contract_size non-zero
calculate_commodity_pnl(self, price_diff, quantity) ==
    <<RatRound(RatMul(RatMul(price_diff, self.contract_size), quantity), 100),
      RatRound(RatDiv(RatMul(RatMul(price_diff, self.contract_size), quantity),
                      RatMul(self.contract_size, quantity)), 100)>>

CalculatorDispatch(self, quantity, price_diff) ==
    IF self.instrument_type = "forex" THEN calculate_forex_pnl(self, quantity, price_diff)
    ELSE IF self.instrument_type = "index" THEN calculate_index_pnl(self, price_diff, quantity)
    ELSE IF self.instrument_type = "commodity"
    THEN calculate_commodity_pnl(self, price_diff, quantity)
    ELSE calculate_stock_pnl(self, price_diff, quantity)

\* PnLCalculator.calculate_pnl: (profit_loss, pips or points)
calculator_calculate_pnl(self, entry_price, exit_price, quantity, trade_type) ==
    IF RatLeq(entry_price, Zero) \/ RatLeq(exit_price, Zero) \/ RatLeq(quantity, Zero)
    THEN <<Zero, Zero>>
    ELSE CalculatorDispatch(self, quantity,
                            IF StrUpper(trade_type) = <<"B", "U", "Y">>
                            THEN RatSub(exit_price, entry_price)
                            ELSE RatSub(entry_price, exit_price))

\* the divisor of target_pnl in reverse_calculate_exit
ReverseDivisor(self, quantity) ==
    IF self.instrument_type = "forex"
    THEN RatMul(RatMul(RatMul(self.pip_size, self.contract_size), <<10, 1>>), quantity)
    ELSE IF self.instrument_type = "index" THEN RatMul(self.tick_value, quantity)
    ELSE IF self.instrument_type = "commodity" THEN RatMul(self.contract_size, quantity)
    ELSE quantity

\* price_diff of reverse_calculate_exit for a non-zero divisor
ReversePriceDiff(self, target_pnl, divisor) ==
    IF self.instrument_type = "forex"
    THEN RatMul(RatDiv(target_pnl, divisor), self.pip_size)
    ELSE RatDiv(target_pnl, divisor)

ReverseExit(self, entry_price, target_pnl, trade_type, divisor) ==
    IF divisor[1] = 0 THEN Zero
    ELSE IF StrUpper(trade_type) = <<"B", "U", "Y">>
    THEN RatRound(RatAdd(entry_price, ReversePriceDiff(self, target_pnl, divisor)), 10000)
    ELSE RatRound(RatSub(entry_price, ReversePriceDiff(self, target_pnl, divisor)), 10000)

\* PnLCalculator.reverse_calculate_exit; a zero divisor is the
\* ZeroDivisionError the method turns into 0.0
reverse_calculate_exit(self, entry_price, quantity, target_pnl, trade_type) ==
    IF RatLeq(entry_price, Zero) \/ RatLeq(quantity, Zero) THEN Zero
    ELSE ReverseExit(self, entry_price, target_pnl, trade_type,
                     ReverseDivisor(self, quantity))

(***************************************************************************)
(* Importers (app/importers/base_importer.py, csv_importer.py).  A CSV     *)
(* source is what csv.DictReader makes of it: the field names and, for     *)
(* each row, the dict from field name to text.                             *)
(***************************************************************************)
GENERIC == <<"g", "e", "n", "e", "r", "i", "c">>

\* a strptime format: directives and literal characters
GenericDateFormat == <<"%Y", "-", "%m", "-", "%d", " ", "%H", ":", "%M", ":", "%S">>
OandaDateFormat == <<"%Y", "-", "%m", "-", "%d", "T", "%H", ":", "%M", ":", "%S">>

Column(field, names) == [field |-> field, names |-> names]

\* CSVImporter.BROKER_FORMATS: the entries 'oanda' and 'generic'
BROKER_FORMATS ==
    (OANDA :>
        [delimiter |-> ",", date_format |-> OandaDateFormat,
         columns |-> <<
            Column("ticket", <<<<"i", "d">>, <<"t", "r", "a", "d", "e", "I", "d">>, <<"t", "r", "a", "d", "e", "_", "i", "d">>>>),
            Column("symbol", <<<<"i", "n", "s", "t", "r", "u", "m", "e", "n", "t">>, <<"s", "y", "m", "b", "o", "l">>, <<"p", "a", "i", "r">>>>),
            Column("type", <<<<"t", "y", "p", "e">>, <<"s", "i", "d", "e">>>>),
            Column("lots", <<<<"u", "n", "i", "t", "s">>, <<"s", "i", "z", "e">>, <<"q", "u", "a", "n", "t", "i", "t", "y">>, <<"a", "m", "o", "u", "n", "t">>>>),
            Column("open_price", <<<<"p", "r", "i", "c", "e">>, <<"o", "p", "e", "n", "P", "r", "i", "c", "e">>, <<"o", "p", "e", "n", "_", "p", "r", "i", "c", "e">>, <<"a", "v", "g", "P", "r", "i", "c", "e">>>>),
            Column("close_price", <<<<"c", "l", "o", "s", "e", "P", "r", "i", "c", "e">>, <<"c", "l", "o", "s", "e", "_", "p", "r", "i", "c", "e">>, <<"c", "l", "o", "s", "i", "n", "g", "P", "r", "i", "c", "e">>>>),
            Column("open_time", <<<<"o", "p", "e", "n", "T", "i", "m", "e">>, <<"o", "p", "e", "n", "_", "t", "i", "m", "e">>, <<"o", "p", "e", "n", "D", "a", "t", "e">>, <<"c", "r", "e", "a", "t", "e", "d", "A", "t">>>>),
            Column("close_time", <<<<"c", "l", "o", "s", "e", "T", "i", "m", "e">>, <<"c", "l", "o", "s", "e", "_", "t", "i", "m", "e">>, <<"c", "l", "o", "s", "e", "D", "a", "t", "e">>, <<"c", "l", "o", "s", "e", "d", "A", "t">>>>),
            Column("profit", <<<<"r", "e", "a", "l", "i", "z", "e", "d", "P", "L">>, <<"p", "r", "o", "f", "i", "t">>, <<"p", "n", "l">>, <<"p", "/", "l">>, <<"p", "l">>>>) >>])
    @@ (GENERIC :>
        [delimiter |-> ",", date_format |-> GenericDateFormat,
         columns |-> <<
            Column("ticket", <<<<"t", "i", "c", "k", "e", "t">>, <<"o", "r", "d", "e", "r">>, <<"i", "d">>, <<"t", "r", "a", "d", "e", "_", "i", "d">>, <<"t", "r", "a", "d", "e", "i", "d">>>>),
            Column("symbol", <<<<"s", "y", "m", "b", "o", "l">>, <<"i", "n", "s", "t", "r", "u", "m", "e", "n", "t">>, <<"p", "a", "i", "r">>, <<"m", "a", "r", "k", "e", "t">>>>),
            Column("type", <<<<"t", "y", "p", "e">>, <<"s", "i", "d", "e">>, <<"d", "i", "r", "e", "c", "t", "i", "o", "n">>, <<"a", "c", "t", "i", "o", "n">>>>),
            Column("lots", <<<<"l", "o", "t", "s">>, <<"s", "i", "z", "e">>, <<"v", "o", "l", "u", "m", "e">>, <<"q", "u", "a", "n", "t", "i", "t", "y">>, <<"u", "n", "i", "t", "s">>, <<"a", "m", "o", "u", "n", "t">>>>),
            Column("open_price", <<<<"o", "p", "e", "n", "_", "p", "r", "i", "c", "e">>, <<"e", "n", "t", "r", "y", "_", "p", "r", "i", "c", "e">>, <<"p", "r", "i", "c", "e">>, <<"o", "p", "e", "n">>, <<"e", "n", "t", "r", "y">>>>),
            Column("close_price", <<<<"c", "l", "o", "s", "e", "_", "p", "r", "i", "c", "e">>, <<"e", "x", "i", "t", "_", "p", "r", "i", "c", "e">>, <<"c", "l", "o", "s", "e">>, <<"e", "x", "i", "t">>>>),
            Column("open_time", <<<<"o", "p", "e", "n", "_", "t", "i", "m", "e">>, <<"e", "n", "t", "r", "y", "_", "t", "i", "m", "e">>, <<"o", "p", "e", "n", "_", "d", "a", "t", "e">>, <<"d", "a", "t", "e">>, <<"t", "i", "m", "e">>>>),
            Column("close_time", <<<<"c", "l", "o", "s", "e", "_", "t", "i", "m", "e">>, <<"e", "x", "i", "t", "_", "t", "i", "m", "e">>, <<"c", "l", "o", "s", "e", "_", "d", "a", "t", "e">>>>),
            Column("profit", <<<<"p", "r", "o", "f", "i", "t">>, <<"p", "n", "l">>, <<"p", "/", "l">>, <<"p", "l">>, <<"r", "e", "a", "l", "i", "z", "e", "d", "_", "p", "n", "l">>,
                               <<"g", "r", "o", "s", "s", "_", "p", "r", "o", "f", "i", "t">>>>) >>])

\* CSVImporter.__init__
CSVImporter(broker_id, dry_run) ==
    [broker_id |-> broker_id, dry_run |-> dry_run,
     format |-> Get(BROKER_FORMATS, broker_id, BROKER_FORMATS[GENERIC])]

\* {f.lower().strip(): f for f in fieldnames}: a later name overwrites
RECURSIVE FieldnamesLower(_)
FieldnamesLower(fieldnames) ==
    IF fieldnames = <<>> THEN <<>>
    ELSE (StrStrip(StrLower(fieldnames[Len(fieldnames)])) :> fieldnames[Len(fieldnames)])
         @@ FieldnamesLower(SubSeq(fieldnames, 1, Len(fieldnames) - 1))

\* the first of possible_names among the field names, or None
RECURSIVE FirstName(_, _)
FirstName(names, fieldnames_lower) ==
    IF names = <<>> THEN None
    ELSE IF StrLower(Head(names)) \in DOMAIN fieldnames_lower
    THEN Some(fieldnames_lower[StrLower(Head(names))])
    ELSE FirstName(Tail(names), fieldnames_lower)

RECURSIVE ColumnMapLoop(_, _)
ColumnMapNext(found, columns, fieldnames_lower) ==
    IF IsNone(found) THEN ColumnMapLoop(Tail(columns), fieldnames_lower)
    ELSE (Head(columns).field :> found[1]) @@ ColumnMapLoop(Tail(columns), fieldnames_lower)

ColumnMapLoop(columns, fieldnames_lower) ==
    IF columns = <<>> THEN <<>>
    ELSE ColumnMapNext(FirstName(Head(columns).names, fieldnames_lower), columns,
                       fieldnames_lower)

\* _build_column_map
build_column_map(self, fieldnames) ==
    ColumnMapLoop(Get(self.format, "columns", <<>>), FieldnamesLower(fieldnames))

\* get_value of _parse_row: None, or the stripped text (which may be empty)
get_value(row, column_map, field) ==
    IF field \notin DOMAIN column_map THEN None
    ELSE IF column_map[field] = <<>> \/ column_map[field] \notin DOMAIN row THEN None
    ELSE IF row[column_map[field]] = <<>> THEN None
    ELSE Some(StrStrip(row[column_map[field]]))

\* truth of an Optional[str]
Truthy(value) == ~IsNone(value) /\ value[1] # <<>>

\* _parse_direction
parse_direction(trade_type) ==
    IF trade_type = <<>> THEN "buy"
    ELSE IF \E x \in {<<"s", "e", "l", "l">>, <<"s", "h", "o", "r", "t">>, <<"s">>, <<"a", "s", "k">>} : Contains(StrLower(trade_type), x)
    THEN "sell"
    ELSE "buy"

DigitOf ==
    ("0" :> 0) @@ ("1" :> 1) @@ ("2" :> 2) @@ ("3" :> 3) @@ ("4" :> 4) @@ ("5" :> 5)
    @@ ("6" :> 6) @@ ("7" :> 7) @@ ("8" :> 8) @@ ("9" :> 9)
IsDigit(c) == c \in DOMAIN DigitOf
AllDigits(s) == \A i \in 1..Len(s) : IsDigit(s[i])

\* int(s) of a string of digits
RECURSIVE DigitsToInt(_)
DigitsToInt(s) ==
    IF s = <<>> THEN 0
    ELSE 10 * DigitsToInt(SubSeq(s, 1, Len(s) - 1)) + DigitOf[s[Len(s)]]

\* str(n) for n >= 0
RECURSIVE IntToStr(_)
IntToStr(n) ==
    IF n < 10 THEN <<Digits[n + 1]>> ELSE IntToStr(n \div 10) \o <<Digits[(n % 10) + 1]>>

\* the index of the first character of s in the set, or 0
FirstIndex(s, set) ==
    IF \E i \in 1..Len(s) : s[i] \in set
    THEN CHOOSE i \in 1..Len(s) : s[i] \in set /\ \A j \in 1..(i - 1) : s[j] \notin set
    ELSE 0

IsSign(c) == c = "+" \/ c = "-"
Unsigned(s) == IF s # <<>> /\ IsSign(Head(s)) THEN Tail(s) ELSE s
SignOf(s) == IF s # <<>> /\ Head(s) = "-" THEN -1 ELSE 1

\* m * 10 ^ e as a rational
Scaled(m, e) == IF e >= 0 THEN Rat(m * 10 ^ e, 1) ELSE Rat(m, 10 ^ (-e))

\* float() of sign, mantissa text and exponent text that are well formed
FloatOf(sign, whole, fraction, exponent) ==
    Scaled(sign * DigitsToInt(whole \o fraction),
           (IF exponent = <<>> THEN 0 ELSE SignOf(exponent) * DigitsToInt(Unsigned(exponent)))
           - Len(fraction))

\* the mantissa split at its decimal point, when it has at most one
FloatMantissa(sign, mantissa, dot, exponent) ==
    IF dot = 0
    THEN IF mantissa # <<>> /\ AllDigits(mantissa)
         THEN Some(FloatOf(sign, mantissa, <<>>, exponent)) ELSE None
    ELSE IF /\ AllDigits(SubSeq(mantissa, 1, dot - 1))
            /\ AllDigits(SubSeq(mantissa, dot + 1, Len(mantissa)))
            /\ Len(mantissa) > 1
         THEN Some(FloatOf(sign, SubSeq(mantissa, 1, dot - 1),
                           SubSeq(mantissa, dot + 1, Len(mantissa)), exponent))
         ELSE None

\* the unsigned text split at its exponent marker, when it has one
FloatSplit(sign, body, marker) ==
    IF marker = 0 THEN FloatMantissa(sign, body, FirstIndex(body, {"."}), <<>>)
    ELSE IF /\ Unsigned(SubSeq(body, marker + 1, Len(body))) # <<>>
            /\ AllDigits(Unsigned(SubSeq(body, marker + 1, Len(body))))
         THEN FloatMantissa(sign, SubSeq(body, 1, marker - 1),
                            FirstIndex(SubSeq(body, 1, marker - 1), {"."}),
                            SubSeq(body, marker + 1, Len(body)))
         ELSE None

\* float(cleaned), None for the ValueError
ToFloat(cleaned) ==
    FloatSplit(SignOf(cleaned), Unsigned(cleaned), FirstIndex(Unsigned(cleaned), {"e", "E"}))

FloatChars == DOMAIN DigitOf \cup {".", "-", "+", "e", "E"}
KeepFloatChars(c) == c \in FloatChars
NotComma(c) == c # ","

\* _parse_float
parse_float(value) ==
    IF ~Truthy(value) THEN None
    ELSE ToFloat(SelectSeq(SelectSeq(value[1], NotComma), KeepFloatChars))

\* datetime.strptime: a format is matched as the regular expression strptime
\* builds from it (two digits before one, a blank for any run of blanks,
\* letters in either case); the ' d' form of %d is left out
Directives == {"%Y", "%m", "%d", "%H", "%M", "%S", "%f"}
TwoDigitRange ==
    ("%m" :> <<1, 12>>) @@ ("%d" :> <<1, 31>>) @@ ("%H" :> <<0, 23>>)
    @@ ("%M" :> <<0, 59>>) @@ ("%S" :> <<0, 61>>)
OneDigitMin == ("%m" :> 1) @@ ("%d" :> 1) @@ ("%H" :> 0) @@ ("%M" :> 0) @@ ("%S" :> 0)

\* how many of the first max characters of s are leading digits
RECURSIVE LeadingDigits(_, _)
LeadingDigits(s, max) ==
    IF max = 0 \/ s = <<>> \/ ~IsDigit(Head(s)) THEN 0
    ELSE 1 + LeadingDigits(Tail(s), max - 1)

RECURSIVE StrpLoop(_, _, _)
StrpOneDigit(s, fmt, fields) ==
    IF s # <<>> /\ IsDigit(Head(s)) /\ DigitOf[Head(s)] >= OneDigitMin[Head(fmt)]
    THEN StrpLoop(Tail(s), Tail(fmt), (Head(fmt) :> DigitOf[Head(s)]) @@ fields)
    ELSE None

StrpTwoDigits(s, fmt, fields, two) ==
    IF ~IsNone(two) THEN two ELSE StrpOneDigit(s, fmt, fields)

StrpNumber(s, fmt, fields) ==
    IF /\ Len(s) >= 2
       /\ AllDigits(SubSeq(s, 1, 2))
       /\ DigitsToInt(SubSeq(s, 1, 2)) >= TwoDigitRange[Head(fmt)][1]
       /\ DigitsToInt(SubSeq(s, 1, 2)) <= TwoDigitRange[Head(fmt)][2]
    THEN StrpTwoDigits(s, fmt, fields,
                       StrpLoop(SubSeq(s, 3, Len(s)), Tail(fmt),
                                (Head(fmt) :> DigitsToInt(SubSeq(s, 1, 2))) @@ fields))
    ELSE StrpOneDigit(s, fmt, fields)

\* %f: one to six digits, as microseconds
StrpFraction(s, fmt, fields, n) ==
    IF n = 0 THEN None
    ELSE StrpLoop(SubSeq(s, n + 1, Len(s)), Tail(fmt),
                  ("%f" :> DigitsToInt(SubSeq(s, 1, n)) * 10 ^ (6 - n)) @@ fields)

StrpLoop(s, fmt, fields) ==
    IF fmt = <<>> THEN IF s = <<>> THEN Some(fields) ELSE None
    ELSE IF Head(fmt) = "%Y"
    THEN IF Len(s) >= 4 /\ AllDigits(SubSeq(s, 1, 4))
         THEN StrpLoop(SubSeq(s, 5, Len(s)), Tail(fmt),
                       ("%Y" :> DigitsToInt(SubSeq(s, 1, 4))) @@ fields)
         ELSE None
    ELSE IF Head(fmt) = "%f" THEN StrpFraction(s, fmt, fields, LeadingDigits(s, 6))
    ELSE IF Head(fmt) \in Directives THEN StrpNumber(s, fmt, fields)
    ELSE IF Head(fmt) = " "
    THEN IF s # <<>> /\ IsSpace(Head(s)) THEN StrpLoop(LStrip(s), Tail(fmt), fields)
         ELSE None
    ELSE IF s # <<>> /\ ToUpperChar(Head(s)) = ToUpperChar(Head(fmt))
    THEN StrpLoop(Tail(s), Tail(fmt), fields)
    ELSE None

DaysInMonth(year, month) ==
    IF month \in {4, 6, 9, 11} THEN 30
    ELSE IF month # 2 THEN 31
    ELSE IF year % 4 = 0 /\ (year % 100 # 0 \/ year % 400 = 0) THEN 29
    ELSE 28

\* the datetime of the matched fields as <<year, month, day, hour, minute,
\* second, microsecond>>, None for the ValueError of the constructor
MakeDatetime(fields) ==
    IF IsNone(fields) THEN None
    ELSE IF \/ Get(fields[1], "%Y", 1900) < 1
            \/ Get(fields[1], "%d", 1) > DaysInMonth(Get(fields[1], "%Y", 1900),
                                                     Get(fields[1], "%m", 1))
            \/ Get(fields[1], "%S", 0) > 59
    THEN None
    ELSE Some(<<Get(fields[1], "%Y", 1900), Get(fields[1], "%m", 1),
                Get(fields[1], "%d", 1), Get(fields[1], "%H", 0),
                Get(fields[1], "%M", 0), Get(fields[1], "%S", 0),
                Get(fields[1], "%f", 0)>>)

strptime(value, fmt) == MakeDatetime(StrpLoop(value, fmt, <<>>))

\* the formats _parse_datetime tries after the broker's own
DateFormats == <<
    <<"%Y", "-", "%m", "-", "%d", " ", "%H", ":", "%M", ":", "%S">>,
    <<"%Y", "-", "%m", "-", "%d", "T", "%H", ":", "%M", ":", "%S">>,
    <<"%Y", "-", "%m", "-", "%d", "T", "%H", ":", "%M", ":", "%S", "Z">>,
    <<"%Y", "-", "%m", "-", "%d", "T", "%H", ":", "%M", ":", "%S", ".", "%f", "Z">>,
    <<"%Y", ".", "%m", ".", "%d", " ", "%H", ":", "%M", ":", "%S">>,
    <<"%Y", ".", "%m", ".", "%d", " ", "%H", ":", "%M">>,
    <<"%d", "/", "%m", "/", "%Y", " ", "%H", ":", "%M", ":", "%S">>,
    <<"%m", "/", "%d", "/", "%Y", " ", "%H", ":", "%M", ":", "%S">>,
    <<"%d", "-", "%m", "-", "%Y", " ", "%H", ":", "%M", ":", "%S">>,
    <<"%Y", "%m", "%d", ";", "%H", "%M", "%S">>,
    <<"%Y", "%m", "%d", " ", "%H", ":", "%M", ":", "%S">> >>

RECURSIVE TryFormats(_, _)
TryFormat(parsed, value, formats) ==
    IF IsNone(parsed) THEN TryFormats(value, Tail(formats)) ELSE parsed

TryFormats(value, formats) ==
    IF formats = <<>> THEN None
    ELSE TryFormat(strptime(value, Head(formats)), value, formats)

\* _parse_datetime
parse_datetime(self, value) ==
    IF ~Truthy(value) THEN None
    ELSE TryFormats(StrStrip(value[1]),
                    <<Get(self.format, "date_format", GenericDateFormat)>> \o DateFormats)

\* TradeRecord(...) as _parse_row builds it; the other fields at their defaults
TradeRecord(ticket, symbol, trade_type, direction, lots, entry_price, exit_price, entry_date, exit_date, profit, status, row) ==
    [broker_ticket |-> ticket, broker_symbol |-> symbol, canonical_symbol |-> None,
     instrument_type |-> None, trade_type |-> trade_type, direction |-> direction,
     lot_size |-> lots, units |-> None, entry_price |-> entry_price,
     exit_price |-> exit_price, stop_loss |-> None, take_profit |-> None,
     entry_date |-> entry_date, exit_date |-> exit_date, profit_loss |-> profit,
     commission |-> Zero, swap |-> Zero, status |-> status, raw_data |-> row,
     mapping_confidence |-> 0, mapping_warnings |-> <<>>, validation_errors |-> <<>>]

\* LotsDirection without the reversal: the direction of the type column is kept
LotsDirectionKept(lots, direction) == direction

\* direction after the sign of lots: negative lots reverse it
LotsDirection(lots, direction) ==
    IF ~RatLess(lots, Zero) THEN direction
    ELSE IF direction = "buy" THEN "sell"
    ELSE IF direction = "sell" THEN "buy"
    ELSE direction

\* x or 0 for an Optional[float]
OrZero(value) == IF IsNone(value) THEN Zero ELSE value[1]

\* 'closed' if exit_price or profit is not None else 'open'
StatusOf(exit_price, profit) ==
    IF (~IsNone(exit_price) /\ exit_price[1][1] # 0) \/ ~IsNone(profit) THEN "closed"
    ELSE "open"

RowRecord(self, row, column_map, ticket, symbol, trade_type, lots, exit_price, profit) ==
    TradeRecord(ticket, symbol, trade_type, LotsDirection(lots, parse_direction(trade_type)),
                RatAbs(lots), OrZero(parse_float(get_value(row, column_map, "open_price"))),
                exit_price, parse_datetime(self, get_value(row, column_map, "open_time")),
                parse_datetime(self, get_value(row, column_map, "close_time")),
                profit, StatusOf(exit_price, profit), row)

RowText(self, row, column_map, row_num, symbol, ticket, trade_type) ==
    IF ~Truthy(symbol) THEN None
    ELSE Some(RowRecord(self, row, column_map,
                        IF Truthy(ticket) THEN ticket[1] ELSE <<"C", "S", "V", "-">> \o IntToStr(row_num),
                        symbol[1], IF Truthy(trade_type) THEN trade_type[1] ELSE <<>>,
                        OrZero(parse_float(get_value(row, column_map, "lots"))),
                        parse_float(get_value(row, column_map, "close_price")),
                        parse_float(get_value(row, column_map, "profit"))))

\* _parse_row: the record, or None for a row without a symbol; with text
\* fields it raises nothing
parse_row(self, row, column_map, row_num) ==
    RowText(self, row, column_map, row_num, get_value(row, column_map, "symbol"),
            get_value(row, column_map, "ticket"), get_value(row, column_map, "type"))

\* the text of an AttributeError
AttributeError(class, name) == <<"'", class, "' object has no attribute '", name, "'">>

\* the (canonical, confidence, details) tuple of map_broker_symbol
MappingTuple(result) ==
    <<result.canonical_symbol, result.confidence,
      [original_symbol |-> result.original_symbol,
       canonical_symbol |-> result.canonical_symbol, confidence |-> result.confidence,
       match_type |-> result.match_type,
       instrument_metadata |-> result.instrument_metadata, adjustments |-> None,
       warnings |-> result.warnings]>>

BrokerFirst(mapped) == [cache |-> mapped.cache, value |-> Object("tuple", MappingTuple(mapped.result))]
SymbolFirst(mapped) == [cache |-> mapped.cache, value |-> Object("MappingResult", mapped.result)]

\* the module-level map_broker_symbol(arg1, arg2): [value, cache]
map_broker_symbol(arg1, arg2, cache) ==
    IF arg1 \in DOMAIN brokers THEN BrokerFirst(map_symbol(arg2, arg1, <<>>, cache))
    ELSE SymbolFirst(map_symbol(arg1, arg2, <<>>, cache))

\* a raised exception, or the trades a helper returns
Raised(message, cache) == [raised |-> Some(message), trades |-> <<>>, cache |-> cache]
Returned(trades, cache) == [raised |-> None, trades |-> trades, cache |-> cache]

\* MappedTrade that also renames the record to its canonical symbol: the
\* variant the frame of the mapping step has to tell apart
MappedTradeRenamed(trade, mapping) ==
    [trade EXCEPT !.canonical_symbol = Some(mapping.canonical_symbol),
                  !.broker_symbol = mapping.canonical_symbol,
                  !.mapping_confidence = mapping.confidence]

\* one pass of the loop of _map_symbols on a MappingResult
MappedTrade(trade, mapping) ==
    [trade EXCEPT !.canonical_symbol = Some(mapping.canonical_symbol),
                  !.mapping_confidence = mapping.confidence,
                  !.mapping_warnings = IF IsNone(mapping.warnings) THEN <<>>
                                       ELSE mapping.warnings[1],
                  !.instrument_type = IF ~IsNone(mapping.instrument_metadata)
                                      THEN Some(mapping.instrument_metadata[1].type)
                                      ELSE @]

RECURSIVE MapSymbolsLoop(_, _, _, _)
MapSymbolsStep(self, trades, done, mapped) ==
    IF mapped.value.class # "MappingResult"
    THEN Raised(AttributeError(mapped.value.class, "canonical_symbol"), mapped.cache)
    ELSE MapSymbolsLoop(self, Tail(trades),
                        Append(done, MappedTrade(Head(trades), mapped.value.value)),
                        mapped.cache)

MapSymbolsLoop(self, trades, done, cache) ==
    IF trades = <<>> THEN Returned(done, cache)
    ELSE MapSymbolsStep(self, trades, done,
                        map_broker_symbol(Head(trades).broker_symbol, self.broker_id, cache))

\* BaseImporter._map_symbols
map_symbols(self, trades, cache) == MapSymbolsLoop(self, trades, <<>>, cache)

\* trade.canonical_symbol or trade.broker_symbol
SymbolOf(trade) ==
    IF ~IsNone(trade.canonical_symbol) /\ trade.canonical_symbol[1] # <<>>
    THEN trade.canonical_symbol[1]
    ELSE trade.broker_symbol

RECURSIVE PnlLoop(_, _, _)
PnlStep(trades, done, cache, result) ==
    IF result.class # "PnLResult" THEN Raised(AttributeError(result.class, "pnl"), cache)
    ELSE PnlLoop(Tail(trades),
                 Append(done, [Head(trades) EXCEPT !.profit_loss = Some(result.value.pnl)]),
                 cache)

PnlLoop(trades, done, cache) ==
    IF trades = <<>> THEN Returned(done, cache)
    ELSE IF IsNone(Head(trades).profit_loss) /\ ~IsNone(Head(trades).exit_price)
    THEN PnlStep(trades, done, cache,
                 calculate_pnl(SymbolOf(Head(trades)), Head(trades).entry_price,
                               Head(trades).exit_price[1], Head(trades).lot_size, "lots",
                               Head(trades).direction,
                               get_instrument_metadata(SymbolOf(Head(trades)))))
    ELSE PnlLoop(Tail(trades), Append(done, Head(trades)), cache)

\* BaseImporter._calculate_pnl
importer_calculate_pnl(trades, cache) == PnlLoop(trades, <<>>, cache)

\* a < b for datetimes
RECURSIVE DateLess(_, _)
DateLess(a, b) ==
    IF a = <<>> THEN FALSE
    ELSE Head(a) < Head(b) \/ (Head(a) = Head(b) /\ DateLess(Tail(a), Tail(b)))

EntryDates(trades) ==
    {trades[i].entry_date[1] : i \in {j \in 1..Len(trades) : ~IsNone(trades[j].entry_date)}}

\* _get_date_range
get_date_range(trades) ==
    IF EntryDates(trades) = {} THEN <<None, None>>
    ELSE <<Some(CHOOSE d \in EntryDates(trades) :
                    \A e \in EntryDates(trades) : ~DateLess(e, d)),
           Some(CHOOSE d \in EntryDates(trades) :
                    \A e \in EntryDates(trades) : ~DateLess(d, e))>>

ImportResult(success, status, message, trades, total_parsed, total_mapped, errors, date_range, broker_id, source_type) ==
    [success |-> success, status |-> status, message |-> message, trades |-> trades,
     total_parsed |-> total_parsed, total_mapped |-> total_mapped, total_imported |-> 0,
     total_skipped |-> 0, total_failed |-> 0, errors |-> errors, warnings |-> <<>>,
     date_range_start |-> date_range[1], date_range_end |-> date_range[2],
     broker_id |-> broker_id, source_file |-> None, source_type |-> source_type]

\* the rows of the reader parsed in turn; row_num counts the header as row 1
RECURSIVE ParseRows(_, _, _, _, _)
ParseRowsNext(self, rows, column_map, row_num, trades, trade) ==
    ParseRows(self, Tail(rows), column_map, row_num,
              IF IsNone(trade) THEN trades ELSE Append(trades, trade[1]))

ParseRows(self, rows, column_map, row_num, trades) ==
    IF rows = <<>> THEN trades
    ELSE ParseRowsNext(self, rows, column_map, row_num + 1, trades,
                       parse_row(self, Head(rows), column_map, row_num + 1))

\* the result for an exception that leaves parse
FailedResult(self, message) ==
    ImportResult(FALSE, "failed", [text |-> "Failed to parse CSV", error |-> message],
                 <<>>, 0, 0, <<message>>, <<None, None>>, Some(self.broker_id), "csv")

CountMapped(trades) ==
    Cardinality({i \in 1..Len(trades) : trades[i].mapping_confidence >= (70 * Unit) \div 100})

\* the result of a parse that ran to its end
CompletedResult(self, trades, errors) ==
    ImportResult(TRUE, IF self.dry_run THEN "validating" ELSE "completed",
                 [text |-> "Parsed trades from CSV", count |-> Len(trades)], trades,
                 Len(trades), CountMapped(trades), errors, get_date_range(trades),
                 Some(self.broker_id), "csv")

ParsePriced(self, priced, errors) ==
    [cache |-> priced.cache,
     result |-> IF ~IsNone(priced.raised) THEN FailedResult(self, priced.raised[1])
                ELSE CompletedResult(self, priced.trades, errors)]

ParseMapped(self, mapped, errors) ==
    IF ~IsNone(mapped.raised)
    THEN [cache |-> mapped.cache, result |-> FailedResult(self, mapped.raised[1])]
    ELSE ParsePriced(self, importer_calculate_pnl(mapped.trades, mapped.cache), errors)

\* CSVImporter.parse: [result, cache]
parse(self, source, cache) ==
    IF source.fieldnames = <<>>
    THEN [cache |-> cache,
          result |-> ImportResult(FALSE, "failed", [text |-> "Could not parse CSV headers"],
                                  <<>>, 0, 0, <<"No valid headers found in CSV">>,
                                  <<None, None>>, None, "unknown")]
    ELSE ParseMapped(self,
                     map_symbols(self,
                                 ParseRows(self, source.rows,
                                           build_column_map(self, source.fieldnames), 1, <<>>),
                                 cache),
                     <<>>)

(***************************************************************************)
(* MT4/MT5 statement parser (app/importers/mt5_parser.py).  A statement is *)
(* what MT5StatementParser collects from the HTML: the tables, each with   *)
(* its header cells and its rows of stripped cell texts.                   *)
(***************************************************************************)
COLUMN_MAPPINGS == <<
    Column("ticket", <<<<"T", "i", "c", "k", "e", "t">>, <<"O", "r", "d", "e", "r">>, <<"P", "o", "s", "i", "t", "i", "o", "n">>, <<"#">>, <<"D", "e", "a", "l">>, <<"T", "r", "a", "d", "e">>>>),
    Column("symbol", <<<<"S", "y", "m", "b", "o", "l">>, <<"I", "n", "s", "t", "r", "u", "m", "e", "n", "t">>>>),
    Column("type", <<<<"T", "y", "p", "e">>, <<"A", "c", "t", "i", "o", "n">>>>),
    Column("lots", <<<<"V", "o", "l", "u", "m", "e">>, <<"L", "o", "t", "s">>, <<"S", "i", "z", "e">>>>),
    Column("open_time", <<<<"O", "p", "e", "n", " ", "T", "i", "m", "e">>, <<"T", "i", "m", "e">>, <<"O", "p", "e", "n", " ", "D", "a", "t", "e">>>>),
    Column("open_price", <<<<"O", "p", "e", "n", " ", "P", "r", "i", "c", "e">>, <<"P", "r", "i", "c", "e">>, <<"E", "n", "t", "r", "y">>>>),
    Column("sl", <<<<"S", "/", "L">>, <<"S", "L">>, <<"S", "t", "o", "p", " ", "L", "o", "s", "s">>>>),
    Column("tp", <<<<"T", "/", "P">>, <<"T", "P">>, <<"T", "a", "k", "e", " ", "P", "r", "o", "f", "i", "t">>>>),
    Column("close_time", <<<<"C", "l", "o", "s", "e", " ", "T", "i", "m", "e">>, <<"C", "l", "o", "s", "e", " ", "D", "a", "t", "e">>>>),
    Column("close_price", <<<<"C", "l", "o", "s", "e", " ", "P", "r", "i", "c", "e">>, <<"E", "x", "i", "t">>>>),
    Column("commission", <<<<"C", "o", "m", "m", "i", "s", "s", "i", "o", "n">>, <<"C", "o", "m", "m">>>>),
    Column("swap", <<<<"S", "w", "a", "p">>, <<"R", "o", "l", "l", "o", "v", "e", "r">>>>),
    Column("profit", <<<<"P", "r", "o", "f", "i", "t">>, <<"P", "/", "L">>, <<"G", "r", "o", "s", "s">>>>) >>

MT5Parser(broker_id, dry_run) == [broker_id |-> broker_id, dry_run |-> dry_run]

\* any(name in h for h in headers_lower)
AnyHeader(headers, name) == \E i \in 1..Len(headers) : Contains(StrLower(headers[i]), name)

\* the test of the first loop of _find_trades_table
HasTradeHeaders(headers) ==
    /\ AnyHeader(headers, <<"s", "y", "m", "b", "o", "l">>) \/ AnyHeader(headers, <<"i", "n", "s", "t", "r", "u", "m", "e", "n", "t">>)
    /\ \/ AnyHeader(headers, <<"p", "r", "o", "f", "i", "t">>) \/ AnyHeader(headers, <<"p", "/", "l">>)
       \/ AnyHeader(headers, <<"t", "y", "p", "e">>) \/ AnyHeader(headers, <<"a", "c", "t", "i", "o", "n">>)

\* the test of the second loop of _find_trades_table
HasWideRows(rows) == Len(rows) > 2 /\ Len(rows[1]) >= 5

\* _find_trades_table: the first table with trade headers, else the first with
\* more than two rows of at least five cells, else None
find_trades_table(tables) ==
    IF \E i \in 1..Len(tables) : HasTradeHeaders(tables[i].headers)
    THEN Some(tables[CHOOSE i \in 1..Len(tables) :
                         /\ HasTradeHeaders(tables[i].headers)
                         /\ \A j \in 1..(i - 1) : ~HasTradeHeaders(tables[j].headers)])
    ELSE IF \E i \in 1..Len(tables) : HasWideRows(tables[i].rows)
    THEN Some(tables[CHOOSE i \in 1..Len(tables) :
                         /\ HasWideRows(tables[i].rows)
                         /\ \A j \in 1..(i - 1) : ~HasWideRows(tables[j].rows)])
    ELSE None

\* the index, from 0, of the first header that contains the first name some
\* header contains
RECURSIVE HeaderIndex(_, _)
HeaderIndex(names, headers) ==
    IF names = <<>> THEN None
    ELSE IF AnyHeader(headers, StrLower(Head(names)))
    THEN Some((CHOOSE i \in 1..Len(headers) :
                   /\ Contains(StrLower(headers[i]), StrLower(Head(names)))
                   /\ \A j \in 1..(i - 1) :
                          ~Contains(StrLower(headers[j]), StrLower(Head(names)))) - 1)
    ELSE HeaderIndex(Tail(names), headers)

\* MT5Parser._build_column_map: field -> column index
mt5_build_column_map(headers) ==
    [c \in {k \in 1..Len(COLUMN_MAPPINGS) :
                ~IsNone(HeaderIndex(COLUMN_MAPPINGS[k].names, headers))}
        |-> HeaderIndex(COLUMN_MAPPINGS[c].names, headers)[1]]

\* column_map.get(field) over the entries found
ColumnIndex(column_map, field) ==
    IF \E c \in DOMAIN column_map : COLUMN_MAPPINGS[c].field = field
    THEN Some(column_map[CHOOSE c \in DOMAIN column_map : COLUMN_MAPPINGS[c].field = field])
    ELSE None

\* get_value of MT5Parser._parse_row
CellValue(row, idx) ==
    IF IsNone(idx) \/ idx[1] >= Len(row) THEN None
    ELSE IF row[idx[1] + 1] = <<>> THEN None
    ELSE Some(StrStrip(row[idx[1] + 1]))

mt5_get_value(row, column_map, field) == CellValue(row, ColumnIndex(column_map, field))

\* MT5Parser._parse_direction
mt5_parse_direction(trade_type) ==
    IF trade_type = <<>> THEN "buy"
    ELSE IF Contains(StrLower(trade_type), <<"s", "e", "l", "l">>) \/ Contains(StrLower(trade_type), <<"s", "h", "o", "r", "t">>)
    THEN "sell"
    ELSE "buy"

Mt5FloatChars == DOMAIN DigitOf \cup {".", "-", "+"}
KeepMt5FloatChars(c) == c \in Mt5FloatChars

\* MT5Parser._parse_float
mt5_parse_float(value) ==
    IF ~Truthy(value) THEN None
    ELSE ToFloat(SelectSeq(value[1], KeepMt5FloatChars))

Mt5DateFormats == <<
    <<"%Y", ".", "%m", ".", "%d", " ", "%H", ":", "%M", ":", "%S">>,
    <<"%Y", ".", "%m", ".", "%d", " ", "%H", ":", "%M">>,
    <<"%Y", "-", "%m", "-", "%d", " ", "%H", ":", "%M", ":", "%S">>,
    <<"%Y", "-", "%m", "-", "%d", " ", "%H", ":", "%M">>,
    <<"%d", ".", "%m", ".", "%Y", " ", "%H", ":", "%M", ":", "%S">>,
    <<"%d", ".", "%m", ".", "%Y", " ", "%H", ":", "%M">>,
    <<"%Y", "/", "%m", "/", "%d", " ", "%H", ":", "%M", ":", "%S">>,
    <<"%Y", "/", "%m", "/", "%d", " ", "%H", ":", "%M">> >>

\* MT5Parser._parse_datetime
mt5_parse_datetime(value) ==
    IF ~Truthy(value) THEN None ELSE TryFormats(StrStrip(value[1]), Mt5DateFormats)

\* IsNonTrade with the type compared as written, letter case included
IsNonTradeExact(trade_type) ==
    trade_type \in {<<"b", "a", "l", "a", "n", "c", "e">>, <<"d", "e", "p", "o", "s", "i", "t">>, <<"w", "i", "t", "h", "d", "r", "a", "w", "a", "l">>, <<"c", "r", "e", "d", "i", "t">>, <<"r", "e", "b", "a", "t", "e">>}

\* trade_type.lower() in ['balance', 'deposit', 'withdrawal', 'credit', 'rebate']
IsNonTrade(trade_type) ==
    StrLower(trade_type) \in {<<"b", "a", "l", "a", "n", "c", "e">>, <<"d", "e", "p", "o", "s", "i", "t">>, <<"w", "i", "t", "h", "d", "r", "a", "w", "a", "l">>, <<"c", "r", "e", "d", "i", "t">>, <<"r", "e", "b", "a", "t", "e">>}

\* sl if sl and sl > 0 else None
PositiveOrNone(value) ==
    IF ~IsNone(value) /\ RatLess(Zero, value[1]) THEN value ELSE None

\* the TradeRecord of a row that has a symbol and is a trade
Mt5Record(row, headers, column_map, ticket, symbol, trade_type, exit_price, profit) ==
    [TradeRecord(ticket, symbol, trade_type, mt5_parse_direction(trade_type),
                 OrZero(mt5_parse_float(mt5_get_value(row, column_map, "lots"))),
                 OrZero(mt5_parse_float(mt5_get_value(row, column_map, "open_price"))),
                 exit_price,
                 mt5_parse_datetime(mt5_get_value(row, column_map, "open_time")),
                 mt5_parse_datetime(mt5_get_value(row, column_map, "close_time")),
                 profit, StatusOf(exit_price, profit), [row |-> row, headers |-> headers])
     EXCEPT !.stop_loss = PositiveOrNone(mt5_parse_float(mt5_get_value(row, column_map, "sl"))),
            !.take_profit = PositiveOrNone(mt5_parse_float(mt5_get_value(row, column_map, "tp"))),
            !.commission = OrZero(mt5_parse_float(mt5_get_value(row, column_map, "commission"))),
            !.swap = OrZero(mt5_parse_float(mt5_get_value(row, column_map, "swap")))]

Mt5RowText(row, headers, column_map, row_num, symbol, trade_type, ticket) ==
    IF ~Truthy(symbol) THEN None
    ELSE IF IsNonTrade(IF Truthy(trade_type) THEN trade_type[1] ELSE <<>>) THEN None
    ELSE Some(Mt5Record(row, headers, column_map,
                        IF Truthy(ticket) THEN ticket[1] ELSE <<"M", "T", "-">> \o IntToStr(row_num),
                        symbol[1], IF Truthy(trade_type) THEN trade_type[1] ELSE <<>>,
                        mt5_parse_float(mt5_get_value(row, column_map, "close_price")),
                        mt5_parse_float(mt5_get_value(row, column_map, "profit"))))

\* MT5Parser._parse_row: the record, or None for a row without a symbol or of
\* a non-trade type
mt5_parse_row(row, headers, column_map, row_num) ==
    Mt5RowText(row, headers, column_map, row_num, mt5_get_value(row, column_map, "symbol"),
               mt5_get_value(row, column_map, "type"), mt5_get_value(row, column_map, "ticket"))

\* for row_num, row in enumerate(trades_table['rows'], 1)
RECURSIVE Mt5ParseRows(_, _, _, _, _)
Mt5ParseRowsNext(rows, headers, column_map, row_num, trades, trade) ==
    Mt5ParseRows(Tail(rows), headers, column_map, row_num + 1,
                 IF IsNone(trade) THEN trades ELSE Append(trades, trade[1]))

Mt5ParseRows(rows, headers, column_map, row_num, trades) ==
    IF rows = <<>> THEN trades
    ELSE Mt5ParseRowsNext(rows, headers, column_map, row_num, trades,
                          mt5_parse_row(Head(rows), headers, column_map, row_num))

Mt5FailedResult(self, message) ==
    ImportResult(FALSE, "failed",
                 [text |-> "Failed to parse MT4/MT5 statement", error |-> message],
                 <<>>, 0, 0, <<message>>, <<None, None>>, Some(self.broker_id), "mt5")

Mt5CompletedResult(self, trades, errors) ==
    ImportResult(TRUE, IF self.dry_run THEN "validating" ELSE "completed",
                 [text |-> "Parsed trades from MT4/MT5 statement", count |-> Len(trades)],
                 trades, Len(trades), CountMapped(trades), errors, get_date_range(trades),
                 Some(self.broker_id), "mt5")

Mt5ParsePriced(self, priced, errors) ==
    [cache |-> priced.cache,
     result |-> IF ~IsNone(priced.raised) THEN Mt5FailedResult(self, priced.raised[1])
                ELSE Mt5CompletedResult(self, priced.trades, errors)]

Mt5ParseMapped(self, mapped, errors) ==
    IF ~IsNone(mapped.raised)
    THEN [cache |-> mapped.cache, result |-> Mt5FailedResult(self, mapped.raised[1])]
    ELSE Mt5ParsePriced(self, importer_calculate_pnl(mapped.trades, mapped.cache), errors)

Mt5ParseTable(self, table, cache) ==
    IF IsNone(table)
    THEN [cache |-> cache,
          result |-> ImportResult(FALSE, "failed",
                                  [text |-> "Could not find trades table in statement"],
                                  <<>>, 0, 0, <<"No valid trades table found">>,
                                  <<None, None>>, None, "unknown")]
    ELSE Mt5ParseMapped(self,
                        map_symbols(self,
                                    Mt5ParseRows(table[1].rows, table[1].headers,
                                                 mt5_build_column_map(table[1].headers),
                                                 1, <<>>),
                                    cache),
                        <<>>)

\* MT5Parser.parse of the tables of a statement: [result, cache]
mt5_parse(self, tables, cache) == Mt5ParseTable(self, find_trades_table(tables), cache)

(***************************************************************************)
(* The REST API importers (OANDA, Binance).  The network is the            *)
(* environment: env.requests tells whether the requests library can be     *)
(* imported, env.server how the broker answers the requests of one call.   *)
(* Every operation returns the importer, the requests it sent and its      *)
(* result.  The accounts have no trade in their history.                   *)
(***************************************************************************)
PRACTICE_URL == <<"h", "t", "t", "p", "s", ":", "/", "/", "a", "p", "i", "-", "f", "x", "p", "r", "a", "c", "t", "i", "c", "e", ".", "o", "a", "n", "d", "a", ".", "c", "o", "m">>
LIVE_URL == <<"h", "t", "t", "p", "s", ":", "/", "/", "a", "p", "i", "-", "f", "x", "t", "r", "a", "d", "e", ".", "o", "a", "n", "d", "a", ".", "c", "o", "m">>
SPOT_URL == <<"h", "t", "t", "p", "s", ":", "/", "/", "a", "p", "i", ".", "b", "i", "n", "a", "n", "c", "e", ".", "c", "o", "m">>
FUTURES_URL == <<"h", "t", "t", "p", "s", ":", "/", "/", "f", "a", "p", "i", ".", "b", "i", "n", "a", "n", "c", "e", ".", "c", "o", "m">>
BINANCE == <<"b", "i", "n", "a", "n", "c", "e">>

OANDAImporter(api_key, account_id, is_practice) ==
    [broker_id |-> OANDA, dry_run |-> FALSE, api_key |-> api_key, account_id |-> account_id,
     base_url |-> IF is_practice THEN PRACTICE_URL ELSE LIVE_URL, session |-> None]

BinanceImporter(api_key, api_secret, use_futures) ==
    [broker_id |-> BINANCE, dry_run |-> FALSE, api_key |-> api_key, api_secret |-> api_secret,
     use_futures |-> use_futures,
     base_url |-> IF use_futures THEN FUTURES_URL ELSE SPOT_URL, session |-> None]

\* is_configured answering True whatever the credentials
is_configured_always(self) == TRUE

\* the property is_configured of both importers
is_configured(self) ==
    IF self.broker_id = OANDA THEN Truthy(self.api_key) /\ Truthy(self.account_id)
    ELSE Truthy(self.api_key) /\ Truthy(self.api_secret)

\* f'{value}' for an Optional[str]
Format(value) == IF IsNone(value) THEN <<"N", "o", "n", "e">> ELSE value[1]

SessionHeaders(self) ==
    IF self.broker_id = OANDA
    THEN [Authorization |-> <<"B", "e", "a", "r", "e", "r", " ">> \o Format(self.api_key),
          ContentType |-> <<"a", "p", "p", "l", "i", "c", "a", "t", "i", "o", "n", "/", "j", "s", "o", "n">>, AcceptDatetimeFormat |-> <<"R", "F", "C", "3", "3", "3", "9">>]
    ELSE [XMBXAPIKEY |-> self.api_key]

\* _get_session: [raised, self]
get_session(self, env) ==
    IF ~IsNone(self.session) THEN [raised |-> None, self |-> self]
    ELSE IF ~env.requests
    THEN [raised |-> Some(<<"r", "e", "q", "u", "e", "s", "t", "s", " ", "l", "i", "b", "r", "a", "r", "y", " ", "r", "e", "q", "u", "i", "r", "e", "d", " ", "f", "o", "r", " ">> \o
                          (IF self.broker_id = OANDA THEN <<"O", "A", "N", "D", "A">> ELSE <<"B", "i", "n", "a", "n", "c", "e">>) \o <<" ", "A", "P", "I">>),
          self |-> self]
    ELSE [raised |-> None, self |-> [self EXCEPT !.session = Some(SessionHeaders(self))]]

\* _sign_request: the HMAC is kept as its key and the parameters it signs
sign_request(self, params) ==
    IF IsNone(self.api_secret)
    THEN [raised |-> Some(AttributeError("NoneType", "encode")), params |-> params]
    ELSE [raised |-> None,
          params |-> [params |-> params, timestamp |-> "time.time()",
                      signature |-> [key |-> self.api_secret[1], query_string |-> params]]]

\* session.get(url, params=params) as the server of env answers it
Response(env, json) ==
    IF env.server = "down"
    THEN [raised |-> Some(<<"C", "o", "n", "n", "e", "c", "t", "i", "o", "n", " ", "r", "e", "f", "u", "s", "e", "d">>), status_code |-> 0, text |-> <<>>, json |-> <<>>]
    ELSE IF env.server = "denied"
    THEN [raised |-> None, status_code |-> 401, text |-> <<"U", "n", "a", "u", "t", "h", "o", "r", "i", "z", "e", "d">>, json |-> <<>>]
    ELSE [raised |-> None, status_code |-> 200, text |-> <<>>, json |-> json]

Request(self, url, params) == [headers |-> self.session[1], url |-> url, params |-> params]

\* the dict test_connection returns for an exception, and for a status that is not 200
TestFailed(message) == [success |-> FALSE, error |-> message]
ApiError(response) ==
    [success |-> FALSE, error |-> <<"A", "P", "I", " ", "e", "r", "r", "o", "r", ":", " ">> \o IntToStr(response.status_code),
     details |-> response.text]

OandaAccount(self) == [account |-> [id |-> self.account_id, currency |-> Some(<<"U", "S", "D">>)]]

OandaAccountInfo(account) ==
    [success |-> TRUE, account_id |-> account.id, currency |-> account.currency,
     balance |-> None, margin_available |-> None, open_trade_count |-> None, pl |-> None]

OandaTestResponse(self, request, response) ==
    [self |-> self, sent |-> <<request>>,
     result |-> IF ~IsNone(response.raised) THEN TestFailed(response.raised[1])
                ELSE IF response.status_code = 200 THEN OandaAccountInfo(response.json.account)
                ELSE ApiError(response)]

OandaTestSession(session, env) ==
    IF ~IsNone(session.raised)
    THEN [self |-> session.self, sent |-> <<>>, result |-> TestFailed(session.raised[1])]
    ELSE OandaTestResponse(session.self,
                           Request(session.self,
                                   session.self.base_url \o <<"/", "v", "3", "/", "a", "c", "c", "o", "u", "n", "t", "s", "/">> \o
                                   Format(session.self.account_id), None),
                           Response(env, OandaAccount(session.self)))

\* OANDAImporter.test_connection
oanda_test_connection(self, env) ==
    IF ~is_configured(self)
    THEN [self |-> self, sent |-> <<>>,
          result |-> TestFailed(<<"A", "P", "I", " ", "k", "e", "y", " ", "a", "n", "d", " ", "a", "c", "c", "o", "u", "n", "t", " ", "I", "D", " ", "r", "e", "q", "u", "i", "r", "e", "d">>)]
    ELSE OandaTestSession(get_session(self, env), env)

BinanceAccount(self) ==
    IF self.use_futures
    THEN [totalWalletBalance |-> Some(<<"0", ".", "0", "0">>), availableBalance |-> Some(<<"0", ".", "0", "0">>),
          totalUnrealizedProfit |-> Some(<<"0", ".", "0", "0">>), assets |-> <<>>]
    ELSE [canTrade |-> Some(TRUE), accountType |-> Some(<<"S", "P", "O", "T">>), balances |-> <<>>]

BinanceAccountInfo(self, data) ==
    IF self.use_futures
    THEN [success |-> TRUE, total_wallet_balance |-> data.totalWalletBalance,
          available_balance |-> data.availableBalance,
          total_unrealized_profit |-> data.totalUnrealizedProfit,
          asset_count |-> Len(data.assets)]
    ELSE [success |-> TRUE, can_trade |-> data.canTrade, account_type |-> data.accountType,
          balances |-> Len(data.balances)]

BinanceTestResponse(self, request, response) ==
    [self |-> self, sent |-> <<request>>,
     result |-> IF ~IsNone(response.raised) THEN TestFailed(response.raised[1])
                ELSE IF response.status_code = 200 THEN BinanceAccountInfo(self, response.json)
                ELSE ApiError(response)]

BinanceTestSigned(self, signed, env) ==
    IF ~IsNone(signed.raised)
    THEN [self |-> self, sent |-> <<>>, result |-> TestFailed(signed.raised[1])]
    ELSE BinanceTestResponse(self,
                             Request(self, self.base_url \o
                                           (IF self.use_futures THEN <<"/", "f", "a", "p", "i", "/", "v", "2", "/", "a", "c", "c", "o", "u", "n", "t">>
                                            ELSE <<"/", "a", "p", "i", "/", "v", "3", "/", "a", "c", "c", "o", "u", "n", "t">>),
                                     Some(signed.params)),
                             Response(env, BinanceAccount(self)))

BinanceTestSession(session, env) ==
    IF ~IsNone(session.raised)
    THEN [self |-> session.self, sent |-> <<>>, result |-> TestFailed(session.raised[1])]
    ELSE BinanceTestSigned(session.self, sign_request(session.self, <<>>), env)

\* BinanceImporter.test_connection
binance_test_connection(self, env) ==
    IF ~is_configured(self)
    THEN [self |-> self, sent |-> <<>>, result |-> TestFailed(<<"A", "P", "I", " ", "k", "e", "y", " ", "a", "n", "d", " ", "s", "e", "c", "r", "e", "t", " ", "r", "e", "q", "u", "i", "r", "e", "d">>)]
    ELSE BinanceTestSession(get_session(self, env), env)

\* the ImportResult of an importer that is not configured
NotConfiguredResult(self) ==
    IF self.broker_id = OANDA
    THEN ImportResult(FALSE, "failed", [text |-> "OANDA API not configured"], <<>>, 0, 0,
                      <<<<"A", "P", "I", " ", "k", "e", "y", " ", "a", "n", "d", " ", "a", "c", "c", "o", "u", "n", "t", " ", "I", "D", " ", "a", "r", "e", " ", "r", "e", "q", "u", "i", "r", "e", "d", ".", " ", "C", "o", "n", "f", "i", "g", "u", "r", "e", " ", "i", "n", " ", "b", "r", "o", "k", "e", "r", " ", "s", "e", "t", "t", "i", "n", "g", "s", ".">>>>,
                      <<None, None>>, Some(self.broker_id), "api")
    ELSE ImportResult(FALSE, "failed", [text |-> "Binance API not configured"], <<>>, 0, 0,
                      <<<<"A", "P", "I", " ", "k", "e", "y", " ", "a", "n", "d", " ", "s", "e", "c", "r", "e", "t", " ", "a", "r", "e", " ", "r", "e", "q", "u", "i", "r", "e", "d", ".", " ", "C", "o", "n", "f", "i", "g", "u", "r", "e", " ", "i", "n", " ", "b", "r", "o", "k", "e", "r", " ", "s", "e", "t", "t", "i", "n", "g", "s", ".">>>>,
                      <<None, None>>, Some(self.broker_id), "api")

\* the ImportResult for an exception that leaves the try block of parse
ApiFailedResult(self, message) ==
    ImportResult(FALSE, "failed",
                 [text |-> IF self.broker_id = OANDA THEN "Failed to fetch trades from OANDA"
                           ELSE "Failed to fetch trades from Binance",
                  error |-> message],
                 <<>>, 0, 0, <<message>>, <<None, None>>, Some(self.broker_id), "api")

\* the ImportResult of a parse that ran to its end
ApiCompletedResult(self, trades, errors) ==
    ImportResult(TRUE, IF self.dry_run THEN "validating" ELSE "completed",
                 [text |-> IF self.broker_id = OANDA THEN "Fetched trades from OANDA"
                           ELSE "Fetched trades from Binance",
                  count |-> Len(trades)],
                 trades, Len(trades), CountMapped(trades), errors, get_date_range(trades),
                 Some(self.broker_id), "api")

\* the mapping and P&L phases of parse, and its result
ApiPriced(self, priced, errors) ==
    [cache |-> priced.cache,
     result |-> IF ~IsNone(priced.raised) THEN ApiFailedResult(self, priced.raised[1])
                ELSE ApiCompletedResult(self, priced.trades, errors)]

ApiMapped(self, mapped, errors) ==
    IF ~IsNone(mapped.raised)
    THEN [cache |-> mapped.cache, result |-> ApiFailedResult(self, mapped.raised[1])]
    ELSE ApiPriced(self, importer_calculate_pnl(mapped.trades, mapped.cache), errors)

ApiFinish(self, sent, done) == [self |-> self, sent |-> sent, cache |-> done.cache, result |-> done.result]

\* min(a, b)
Min(a, b) == IF a < b THEN a ELSE b

\* OANDAImporter._fetch_trades: [raised, self, sent, trades]
OandaFetched(self, request, response) ==
    [self |-> self, sent |-> <<request>>,
     raised |-> IF ~IsNone(response.raised) THEN response.raised
                ELSE IF response.status_code # 200
                THEN Some(<<"O", "A", "N", "D", "A", " ", "A", "P", "I", " ", "e", "r", "r", "o", "r", ":", " ">> \o IntToStr(response.status_code) \o <<" ", "-", " ">> \o
                          response.text)
                ELSE None,
     trades |-> IF IsNone(response.raised) /\ response.status_code = 200
                THEN response.json.trades ELSE <<>>]

oanda_fetch_trades(session, count, env) ==
    IF ~IsNone(session.raised)
    THEN [self |-> session.self, sent |-> <<>>, raised |-> session.raised, trades |-> <<>>]
    ELSE OandaFetched(session.self,
                      Request(session.self,
                              session.self.base_url \o <<"/", "v", "3", "/", "a", "c", "c", "o", "u", "n", "t", "s", "/">> \o
                              Format(session.self.account_id) \o <<"/", "t", "r", "a", "d", "e", "s">>,
                              Some([state |-> <<"C", "L", "O", "S", "E", "D">>, count |-> Min(count, 500)])),
                      Response(env, [trades |-> <<>>]))

OandaParseFetched(fetched, cache) ==
    IF ~IsNone(fetched.raised)
    THEN [self |-> fetched.self, sent |-> fetched.sent, cache |-> cache,
          result |-> ApiFailedResult(fetched.self, fetched.raised[1])]
    ELSE ApiFinish(fetched.self, fetched.sent,
                   ApiMapped(fetched.self, map_symbols(fetched.self, fetched.trades, cache), <<>>))

\* OANDAImporter.parse: source is None or a dict of parameters
oanda_parse(self, source, env, cache) ==
    IF ~is_configured(self)
    THEN [self |-> self, sent |-> <<>>, cache |-> cache, result |-> NotConfiguredResult(self)]
    ELSE OandaParseFetched(
             oanda_fetch_trades(get_session(self, env),
                                IF Truthy(source) THEN Get(source[1], "count", 500) ELSE 500,
                                env),
             cache)

\* BinanceImporter._get_traded_symbols
get_traded_symbols ==
    <<<<"B", "T", "C", "U", "S", "D", "T">>, <<"E", "T", "H", "U", "S", "D", "T">>, <<"B", "N", "B", "U", "S", "D", "T">>, <<"S", "O", "L", "U", "S", "D", "T">>, <<"X", "R", "P", "U", "S", "D", "T">>,
      <<"A", "D", "A", "U", "S", "D", "T">>, <<"D", "O", "G", "E", "U", "S", "D", "T">>, <<"M", "A", "T", "I", "C", "U", "S", "D", "T">>, <<"D", "O", "T", "U", "S", "D", "T">>, <<"A", "V", "A", "X", "U", "S", "D", "T">>>>

\* BinanceImporter._fetch_trades: [raised, self, sent, trades]
BinanceFetched(self, request, response) ==
    [self |-> self, sent |-> <<request>>,
     raised |-> IF ~IsNone(response.raised) THEN response.raised
                ELSE IF response.status_code # 200
                THEN Some(<<"B", "i", "n", "a", "n", "c", "e", " ", "A", "P", "I", " ", "e", "r", "r", "o", "r", ":", " ">> \o IntToStr(response.status_code) \o <<" ", "-", " ">> \o
                          response.text)
                ELSE None,
     trades |-> IF IsNone(response.raised) /\ response.status_code = 200
                THEN response.json ELSE <<>>]

\* the server of env as it answers the request for one symbol, and the trade
\* history it holds for it
ServerFor(env, symbol) ==
    IF symbol \in env.failing THEN [env EXCEPT !.server = "denied"] ELSE env

HistoryOf(env, symbol) == Get(env.history, symbol, <<>>)

BinanceFetchSigned(self, symbol, signed, env) ==
    IF ~IsNone(signed.raised)
    THEN [self |-> self, sent |-> <<>>, raised |-> signed.raised, trades |-> <<>>]
    ELSE BinanceFetched(self,
                        Request(self, self.base_url \o
                                      (IF self.use_futures THEN <<"/", "f", "a", "p", "i", "/", "v", "1", "/", "u", "s", "e", "r", "T", "r", "a", "d", "e", "s">>
                                       ELSE <<"/", "a", "p", "i", "/", "v", "3", "/", "m", "y", "T", "r", "a", "d", "e", "s">>),
                                Some(signed.params)),
                        Response(ServerFor(env, symbol), HistoryOf(env, symbol)))

binance_fetch_trades(session, symbol, limit, env) ==
    IF ~IsNone(session.raised)
    THEN [self |-> session.self, sent |-> <<>>, raised |-> session.raised, trades |-> <<>>]
    ELSE BinanceFetchSigned(session.self, symbol,
                            sign_request(session.self,
                                         [symbol |-> symbol, limit |-> Min(limit, 1000)]),
                            env)

\* the civil date of a day number counted from 1970-01-01
CivilYearOfEra(doe) == (doe - doe \div 1460 + doe \div 36524 - doe \div 146096) \div 365
CivilDayOfYear(doe, yoe) == doe - (365 * yoe + yoe \div 4 - yoe \div 100)
CivilMonth(mp) == IF mp < 10 THEN mp + 3 ELSE mp - 9
CivilDate(era, yoe, doy, mp) ==
    <<yoe + era * 400 + (IF CivilMonth(mp) <= 2 THEN 1 ELSE 0), CivilMonth(mp),
      doy - (153 * mp + 2) \div 5 + 1>>
CivilOfEra(era, doe) ==
    CivilDate(era, CivilYearOfEra(doe), CivilDayOfYear(doe, CivilYearOfEra(doe)),
              (5 * CivilDayOfYear(doe, CivilYearOfEra(doe)) + 2) \div 153)
CivilFromDays(days) ==
    CivilOfEra((days + 719468) \div 146097, (days + 719468) % 146097)

\* datetime.fromtimestamp(time_ms / 1000) in a process whose local zone is UTC;
\* the milliseconds are kept as [seconds, millis]
fromtimestamp(time) ==
    CivilFromDays(time.seconds \div 86400) \o
    <<(time.seconds % 86400) \div 3600, (time.seconds % 3600) \div 60, time.seconds % 60,
      time.millis * 1000>>

\* float(trade_data.get(key, 0)), None for the ValueError
DataFloat(trade_data, key) ==
    IF key \in DOMAIN trade_data THEN ToFloat(trade_data[key]) ELSE Some(Zero)

FloatKeys == <<"qty", "price", "commission", "realizedPnl">>
BadFloats(trade_data) == {i \in DOMAIN FloatKeys : IsNone(DataFloat(trade_data, FloatKeys[i]))}
ValueError(text) == <<"c", "o", "u", "l", "d", " ", "n", "o", "t", " ", "c", "o", "n", "v", "e", "r", "t", " ", "s", "t", "r", "i", "n", "g", " ", "t", "o", " ", "f", "l", "o", "a", "t", ":", " ", "'">> \o text \o <<"'">>

BinanceRecord(trade_data, symbol, trade_id, qty, price, direction, trade_time) ==
    [TradeRecord(trade_id, symbol, direction, direction, qty, price, Some(price), trade_time,
                 trade_time,
                 IF "realizedPnl" \in DOMAIN trade_data
                 THEN DataFloat(trade_data, "realizedPnl") ELSE None,
                 "closed", trade_data)
        EXCEPT !.units = Some(qty), !.commission = DataFloat(trade_data, "commission")[1]]

\* BinanceImporter._parse_trade: [raised, trade]
binance_parse_trade(trade_data, symbol) ==
    IF "id" \notin DOMAIN trade_data THEN [raised |-> None, trade |-> None]
    ELSE IF BadFloats(trade_data) # {}
    THEN [raised |-> Some(ValueError(trade_data[FloatKeys[CHOOSE i \in BadFloats(trade_data) : \A j \in BadFloats(trade_data) : i <= j]])),
          trade |-> None]
    ELSE [raised |-> None,
          trade |-> Some(BinanceRecord(trade_data, symbol, IntToStr(trade_data.id),
                                       DataFloat(trade_data, "qty")[1],
                                       DataFloat(trade_data, "price")[1],
                                       IF Get(trade_data, "isBuyer", TRUE) THEN "buy" ELSE "sell",
                                       IF "time" \in DOMAIN trade_data /\ trade_data.time.seconds # 0
                                       THEN Some(fromtimestamp(trade_data.time)) ELSE None))]

\* the loop `for trade_data in trades_data`: the records appended to all_trades
\* before an exception stay in it
RECURSIVE BinanceParseTrades(_, _, _)
BinanceParsedTrade(trades_data, symbol, all_trades, parsed) ==
    IF ~IsNone(parsed.raised) THEN [raised |-> parsed.raised, trades |-> all_trades]
    ELSE BinanceParseTrades(Tail(trades_data), symbol,
                            IF IsNone(parsed.trade) THEN all_trades
                            ELSE Append(all_trades, parsed.trade[1]))

BinanceParseTrades(trades_data, symbol, all_trades) ==
    IF trades_data = <<>> THEN [raised |-> None, trades |-> all_trades]
    ELSE BinanceParsedTrade(trades_data, symbol, all_trades,
                            binance_parse_trade(Head(trades_data), symbol))

\* one pass of `for sym in symbols` after the fetch
BinanceSymbolDone(fetched, symbol, all_trades) ==
    IF ~IsNone(fetched.raised) THEN [raised |-> fetched.raised, trades |-> all_trades]
    ELSE BinanceParseTrades(fetched.trades, symbol, all_trades)

\* the loop `for sym in symbols` of BinanceImporter.parse: [self, sent, trades, errors]
RECURSIVE BinanceFetchAll(_, _, _, _, _, _, _)
BinanceFetchDone(self, symbols, limit, env, sent, errors, done) ==
    BinanceFetchAll(self, Tail(symbols), limit, env, sent, done.trades,
                    IF IsNone(done.raised) THEN errors
                    ELSE Append(errors, Head(symbols) \o <<":", " ">> \o done.raised[1]))

BinanceFetchNext(symbols, limit, env, sent, trades, errors, fetched) ==
    BinanceFetchDone(fetched.self, symbols, limit, env, sent \o fetched.sent, errors,
                     BinanceSymbolDone(fetched, Head(symbols), trades))

BinanceFetchAll(self, symbols, limit, env, sent, trades, errors) ==
    IF symbols = <<>> THEN [self |-> self, sent |-> sent, trades |-> trades, errors |-> errors]
    ELSE BinanceFetchNext(symbols, limit, env, sent, trades, errors,
                          binance_fetch_trades(get_session(self, env), Head(symbols), limit, env))

BinanceParseFetched(fetched, cache) ==
    ApiFinish(fetched.self, fetched.sent,
              ApiMapped(fetched.self, map_symbols(fetched.self, fetched.trades, cache),
                        fetched.errors))

\* BinanceImporter.parse: source is None or a dict of parameters
binance_parse(self, source, env, cache) ==
    IF ~is_configured(self)
    THEN [self |-> self, sent |-> <<>>, cache |-> cache, result |-> NotConfiguredResult(self)]
    ELSE BinanceParseFetched(
             BinanceFetchAll(self,
                             IF Truthy(source) /\ Truthy(Get(source[1], "symbol", None))
                             THEN <<Get(source[1], "symbol", None)[1]>>
                             ELSE get_traded_symbols,
                             IF Truthy(source) THEN Get(source[1], "limit", 500) ELSE 500,
                             env, <<>>, <<>>, <<>>),
             cache)

(***************************************************************************)
(* The upload route (app/routes/imports.py) and its tables.  A request     *)
(* runs in its own database session: its queries see the committed rows    *)
(* and the rows the session itself has flushed, and its rows become        *)
(* visible to other sessions at commit.  The uploads of the model carry    *)
(* an allowed .csv file.                                                   *)
(***************************************************************************)
\* get_file_hash: SHA-256 of the content, taken as free of collisions on the
\* files of the model: the hash of a file is its place among them
get_file_hash(file_content, files) ==
    CHOOSE i \in 1..Len(files) : files[i] = file_content

\* ImportedTradeSource(...) of upload_file
ImportedTradeSource(id, user_id, broker_id, file_hash, status) ==
    [id |-> id, user_id |-> user_id, source_type |-> "file", broker_id |-> broker_id,
     file_hash |-> file_hash, status |-> status, trades_imported |-> 0,
     trades_skipped |-> 0, trades_failed |-> 0]

\* Trade(...) of upload_file, for a record of the import
Trade(user_id, trade_record, broker_id, imported_source_id) ==
    [user_id |-> user_id,
     symbol |-> IF Truthy(trade_record.canonical_symbol)
                THEN trade_record.canonical_symbol[1] ELSE trade_record.broker_symbol,
     trade_type |-> trade_record.direction, lot_size |-> trade_record.lot_size,
     status |-> IF ~IsNone(trade_record.exit_price) /\ trade_record.exit_price[1][1] # 0
                THEN "closed" ELSE "open",
     trade_id |-> trade_record.broker_ticket, broker |-> broker_id,
     imported_source_id |-> imported_source_id]

\* the CheckConstraints of the trades table
CheckTrade(trade) ==
    /\ trade.trade_type \in {"BUY", "SELL"}
    /\ trade.status \in {"OPEN", "CLOSED", "CANCELLED"}
    /\ RatLess(Zero, trade.lot_size)

\* ImportedTradeSource.query.filter_by(user_id, file_hash).first(), as the id
ExistingSource(sources, user_id, file_hash) ==
    IF \E s \in sources : s.user_id = user_id /\ s.file_hash = file_hash
    THEN Some(CHOOSE id \in {s.id : s \in sources} :
                  \E s \in sources : s.id = id /\ s.user_id = user_id
                                     /\ s.file_hash = file_hash)
    ELSE None

\* Trade.query.filter_by(user_id, trade_id).first() is not None
ExistingTrade(trades, user_id, trade_id) ==
    \E t \in trades : t.user_id = user_id /\ t.trade_id = trade_id

\* the JSON responses of upload_file
UploadResponse(code, success, text) == [code |-> code, success |-> success, text |-> text]
AlreadyImported == UploadResponse(400, FALSE, "This file has already been imported")
ParseFailed == UploadResponse(400, FALSE, "parse failed")
Preview == UploadResponse(200, TRUE, "Preview")
Imported == UploadResponse(200, TRUE, "Successfully imported")
ImportFailed == UploadResponse(500, FALSE, "Import failed")

\* a worker between requests, with the response of its last request
Idle(response) ==
    [pc |-> "idle", user_id |-> 0, file |-> <<>>, file_hash |-> 0, dry_run |-> FALSE,
     response |-> response, trades |-> <<>>, source |-> None, i |-> 1, added |-> <<>>,
     flushed |-> {}, imported |-> 0, skipped |-> 0, failed |-> 0]

Workers == {1, 2}

\* a request between its statements
Request0(pc, user_id, file, file_hash, dry_run, response) ==
    [pc |-> pc, user_id |-> user_id, file |-> file, file_hash |-> file_hash,
     dry_run |-> dry_run, response |-> response, trades |-> <<>>, source |-> None,
     i |-> 1, added |-> <<>>, flushed |-> {}, imported |-> 0, skipped |-> 0, failed |-> 0]

\* upload_file up to the duplicate check
upload_check(sources, user_id, file, file_hash, dry_run) ==
    IF ~IsNone(ExistingSource(sources, user_id, file_hash)) /\ ~dry_run
    THEN Idle(Some(AlreadyImported))
    ELSE Request0("parse", user_id, file, file_hash, dry_run, None)

\* upload_file from importer.parse to db.session.flush(): the request after
\* the parsed and validated result
upload_parsed(request, result, trades, next_id) ==
    IF ~result.success
    THEN Idle(Some(ParseFailed))
    ELSE IF request.dry_run
    THEN Idle(Some(Preview))
    ELSE [request EXCEPT !.pc = "loop", !.trades = trades,
                         !.source = Some(ImportedTradeSource(next_id, request.user_id,
                                                             GENERIC, request.file_hash,
                                                             "importing"))]

\* the flush of the session: the added trades reach the database unless one
\* of them breaks a constraint of the table (IntegrityError)
FlushFails(request) == \E k \in 1..Len(request.added) : ~CheckTrade(request.added[k])
Flushed(request) ==
    [request EXCEPT !.added = <<>>,
                    !.flushed = @ \cup {request.added[k] : k \in 1..Len(request.added)}]

\* except Exception: db.session.rollback() and the 500 response
RolledBack(request) == Idle(Some(ImportFailed))

\* the end of an iteration of the loop over result.trades
NextRecord(request) ==
    [request EXCEPT !.i = @ + 1,
                    !.pc = IF request.i + 1 > Len(request.trades) THEN "commit" ELSE "loop"]

\* one iteration of the loop over result.trades; committed are the trades
\* other sessions have committed
upload_record(request, trade_record, committed) ==
    IF trade_record.validation_errors # <<>>
    THEN NextRecord([request EXCEPT !.failed = @ + 1])
    ELSE IF FlushFails(request) THEN RolledBack(request)
    ELSE IF ExistingTrade(committed \cup Flushed(request).flushed, request.user_id,
                          trade_record.broker_ticket)
    THEN NextRecord([Flushed(request) EXCEPT !.skipped = @ + 1])
    ELSE NextRecord([Flushed(request) EXCEPT
                        !.added = <<Trade(request.user_id, trade_record, GENERIC,
                                          request.source[1].id)>>,
                        !.imported = @ + 1])

\* the source row as db.session.commit() writes it
CompletedSource(request) ==
    [request.source[1] EXCEPT !.trades_imported = request.imported,
                              !.trades_skipped = request.skipped,
                              !.trades_failed = request.failed,
                              !.status = "completed"]

(***************************************************************************)
(* State machine                                                           *)
(***************************************************************************)
\* the catalog and the broker profiles as loaded at start-up, nothing called yet
Loaded ==
    /\ instruments = SeedInstruments
    /\ symbol_index = BuildSymbolIndex(SeedInstruments)
    /\ alias_index = BuildAliasIndex(SeedInstruments)
    /\ brokers = SeedBrokers
    /\ fuzzyCache = <<>>
    /\ mapCall = None
    /\ firstCall = None
    /\ pnlCall = None
    /\ importCall = None
    /\ type_index = BuildTypeIndex(SeedInstruments)
    /\ reloadCall = None
    /\ lookupCall = None
    /\ parseCall = None
    /\ cancelRequested = None
    /\ apiImporter = None
    /\ network = <<>>
    /\ connCall = None
    /\ database = [sources |-> {}, trades |-> {}, next_id |-> 1]
    /\ uploads = [w \in Workers |-> Idle(None)]
    /\ csvImporter = None

Init == Loaded /\ pnlArgs = None /\ importArgs = None

\* the broker symbols given to the mapper
MapSymbols == {
    <<"E", "U", "R", "_", "U", "S", "D">>, <<"e", "u", "r", "_", "u", "s", "d">>, <<"X", "A", "U", "_", "U", "S", "D">>, <<"A", "B", "C", "_", "D", "E", "F">>, <<"G", "O", "L", "D">>, <<"E", "U", "R">>, <<"U", "S", "D">>,
    <<"E", "U", "R", "U", "S", "D", ".", "e", "c", "n">>, <<"E", "U", "R", "U", "S", "D", "m", "i", "c", "r", "o">>, <<"U", "S", "5", "0", "0", "M", "i", "n", "i">>, <<"X", "Y", "Z", "Z", "Y", "1", "2", "3">>, <<>> }

\* the broker symbols of the runs that compare two calls
RepeatSymbols == {<<"E", "U", "R", "_", "U", "S", "D">>, <<"e", "u", "r", "_", "u", "s", "d">>, <<"X", "A", "U", "_", "U", "S", "D">>, <<"G", "O", "L", "D">>, <<"E", "U", "R">>, <<"X", "Y", "Z", "Z", "Y", "1", "2", "3">>}

\* the warnings list of the previous call
PreviousWarnings ==
    IF IsNone(mapCall) \/ IsNone(mapCall[1].result.warnings) THEN <<>>
    ELSE mapCall[1].result.warnings[1]

\* a call mapper.map_symbol(broker_symbol, broker_id)
MapCall(broker_symbol, broker_id) ==
    \E r \in {map_symbol(broker_symbol, broker_id, PreviousWarnings, fuzzyCache)} :
        /\ mapCall' = Some([broker_symbol |-> broker_symbol, broker_id |-> broker_id,
                            result |-> r.result])
        /\ fuzzyCache' = r.cache
        /\ UNCHANGED <<instruments, symbol_index, alias_index, brokers,
                       pnlArgs, pnlCall, importArgs, importCall,
                   type_index, reloadCall, lookupCall, parseCall, cancelRequested,
                   apiImporter, network, connCall, database, uploads, csvImporter>>

MapSymbol(broker_symbol, broker_id) ==
    /\ MapCall(broker_symbol, broker_id)
    /\ UNCHANGED firstCall

\* the call kept for comparison after a later call: others records whether a
\* call with other arguments came after it
Compared(kept, broker_symbol, broker_id) ==
    [kept EXCEPT !.others = @ \/ kept.broker_symbol # broker_symbol
                             \/ kept.broker_id # broker_id]

\* a call that is either kept, with its arguments and result, for comparison
\* with later calls, or is such a later call
MapSymbolCompared(broker_symbol, broker_id, keep) ==
    /\ keep \/ ~IsNone(firstCall)
    /\ MapCall(broker_symbol, broker_id)
    /\ firstCall' = IF keep
                    THEN Some([broker_symbol |-> broker_symbol, broker_id |-> broker_id,
                               result |-> mapCall'[1].result, others |-> FALSE])
                    ELSE Some(Compared(firstCall[1], broker_symbol, broker_id))

NextMap == \E s \in MapSymbols, b \in BrokerIds : MapSymbol(s, b)

SpecMap == Init /\ [][NextMap]_vars

RepeatBrokerIds == {OANDA, UNKNOWN_BROKER}

NextRepeat ==
    \E s \in RepeatSymbols, b \in RepeatBrokerIds, keep \in BOOLEAN :
        MapSymbolCompared(s, b, keep)

SpecRepeat == Init /\ [][NextRepeat]_vars

\* the mapping report is a function of its arguments and the mapper: the
\* symbol lists, repeated symbols included, are drawn at the start
MaxSymbols == 3
ReportSymbols == {<<"E", "U", "R", "_", "U", "S", "D">>, <<"X", "Y", "Z", "Z", "Y", "1", "2", "3">>, <<"G", "O", "L", "D">>, <<"U", "S", "D">>}
ReportLists == UNION {[1..n -> ReportSymbols] : n \in 0..MaxSymbols}
ReportArgs == [op : {"report"}, symbols : ReportLists, broker_id : BrokerIds]

InitReport == Loaded /\ pnlArgs = None /\ importArgs \in {Some(args) : args \in ReportArgs}

\* mapper.get_mapping_report(symbols, broker_id) on the drawn arguments
GetMappingReport ==
    /\ importArgs[1].op = "report"
    /\ \E r \in {get_mapping_report(importArgs[1].symbols, importArgs[1].broker_id,
                                     PreviousWarnings, fuzzyCache)} :
           /\ importCall' = Some(r.report)
           /\ fuzzyCache' = r.cache
    /\ UNCHANGED <<instruments, symbol_index, alias_index, brokers,
                   mapCall, firstCall, pnlArgs, pnlCall, importArgs,
                   type_index, reloadCall, lookupCall, parseCall, cancelRequested,
                   apiImporter, network, connCall, database, uploads, csvImporter>>

NextReport == GetMappingReport
SpecReport == InitReport /\ [][NextReport]_vars

(***************************************************************************)
(* The P&L engines are pure functions: the arguments are drawn at the      *)
(* start and the actions apply the engines to them.                        *)
(***************************************************************************)
MaxTicks == 2
Prices == {Rat(11000 + t, 10000) : t \in 0..MaxTicks} \cup {Rat(11050, 10000)}
Sizes == {Rat(1, 100), Rat(10, 100), Rat(1, 1), Rat(100, 1)}
EngineSymbols == {<<"E", "U", "R", "U", "S", "D">>, <<"X", "A", "U", "U", "S", "D">>, <<"U", "S", "5", "0", "0">>, <<"B", "T", "C", "U", "S", "D">>, <<"A", "A", "P", "L">>, <<"X", "Y", "Z", "Z", "Y", "1", "2", "3">>}
EngineMetas == {None, Some([type |-> "forex"])}
EngineBrokers == {None, Some([lot_size_rule |-> [forex |-> <<1000, 1>>]])}
EngineArgs ==
    [op : {"calculate"}, instrument_symbol : EngineSymbols, entry_price : Prices,
     exit_price : Prices, size : Sizes, size_type : {"lots", "units", "contracts"},
     trade_direction : {"buy", "sell"}, instrument_meta : EngineMetas,
     broker_profile : EngineBrokers]

Calculators ==
    {PnLCalculator("forex", <<1, 10000>>, <<1, 1>>, <<1, 1>>),
     PnLCalculator("index", <<1, 1>>, <<10, 1>>, <<1, 1>>),
     PnLCalculator("crypto", <<1, 100>>, <<1, 1>>, <<1, 1>>),
     PnLCalculator("stock", <<1, 100>>, <<1, 1>>, <<1, 1>>),
     PnLCalculator("commodity", <<1, 100>>, <<1, 1>>, <<100, 1>>)}
MaxTarget == 5
Targets == {Rat(c, 100) : c \in (-2..MaxTarget) \cup {-200, 200}}
RoundTripArgs ==
    [op : {"round_trip"}, calculator : Calculators,
     entry_price : {Rat(1, 1), Rat(12, 10), Rat(100, 1)},
     quantity : {Rat(1, 100), Rat(1, 1), Rat(2000, 1)}, target_pnl : Targets,
     trade_type : {<<"B", "U", "Y">>, <<"S", "E", "L", "L">>, <<"b", "u", "y">>}]

InitPnl ==
    /\ Loaded
    /\ pnlArgs \in {Some(args) : args \in EngineArgs \cup RoundTripArgs}
    /\ importArgs = None

\* PnLEngine.calculate on the drawn arguments
Calculate ==
    /\ pnlArgs[1].op = "calculate"
    /\ pnlCall' = Some(calculate(pnlArgs[1].instrument_symbol, pnlArgs[1].entry_price,
                                 pnlArgs[1].exit_price, pnlArgs[1].size,
                                 pnlArgs[1].size_type, pnlArgs[1].trade_direction,
                                 pnlArgs[1].instrument_meta, pnlArgs[1].broker_profile,
                                 "USD"))
    /\ UNCHANGED <<instruments, symbol_index, alias_index, brokers, fuzzyCache,
                   mapCall, firstCall, pnlArgs, importArgs, importCall,
                   type_index, reloadCall, lookupCall, parseCall, cancelRequested,
                   apiImporter, network, connCall, database, uploads, csvImporter>>

\* PnLCalculator.reverse_calculate_exit on the drawn arguments
ReverseCalculateExit ==
    /\ pnlArgs[1].op = "round_trip"
    /\ IsNone(pnlCall)
    /\ pnlCall' = Some([exit_price |-> reverse_calculate_exit(
                                           pnlArgs[1].calculator, pnlArgs[1].entry_price,
                                           pnlArgs[1].quantity, pnlArgs[1].target_pnl,
                                           pnlArgs[1].trade_type),
                        pnl |-> None])
    /\ UNCHANGED <<instruments, symbol_index, alias_index, brokers, fuzzyCache,
                   mapCall, firstCall, pnlArgs, importArgs, importCall,
                   type_index, reloadCall, lookupCall, parseCall, cancelRequested,
                   apiImporter, network, connCall, database, uploads, csvImporter>>

\* PnLCalculator.calculate_pnl on the exit price reverse_calculate_exit returned
CalculatePnl ==
    /\ pnlArgs[1].op = "round_trip"
    /\ ~IsNone(pnlCall)
    /\ pnlCall' = Some([exit_price |-> pnlCall[1].exit_price,
                        pnl |-> Some(calculator_calculate_pnl(
                                         pnlArgs[1].calculator, pnlArgs[1].entry_price,
                                         pnlCall[1].exit_price, pnlArgs[1].quantity,
                                         pnlArgs[1].trade_type)[1])])
    /\ UNCHANGED <<instruments, symbol_index, alias_index, brokers, fuzzyCache,
                   mapCall, firstCall, pnlArgs, importArgs, importCall,
                   type_index, reloadCall, lookupCall, parseCall, cancelRequested,
                   apiImporter, network, connCall, database, uploads, csvImporter>>

NextPnl == Calculate \/ ReverseCalculateExit \/ CalculatePnl
SpecPnl == InitPnl /\ [][NextPnl]_vars

\* index trades: futures-style prices a quarter point apart, the metadata of
\* the catalog (None), of tests/test_pnl_engine.py and of a 50-multiplier
\* contract, with and without a broker lot rule for indices
IndexPrices == {Rat(4500, 1), Rat(4550, 1), Rat(450025, 100), Rat(45505, 10)}
IndexSizes == {Rat(1, 1), Rat(2, 1), Rat(1, 2)}
IndexMetas ==
    {None, Some([type |-> "index", tick_value |-> <<1, 1>>]),
     Some([type |-> "index", pip_or_tick_size |-> <<1, 4>>,
           tick_value |-> <<25, 2>>, contract_size |-> <<50, 1>>])}
IndexBrokers == {None, Some([lot_size_rule |-> [indices |-> <<4, 1>>]])}
IndexArgs ==
    [op : {"calculate"}, instrument_symbol : {<<"U", "S", "5", "0", "0">>, <<"S", "P", "X", "5", "0", "0">>},
     entry_price : IndexPrices, exit_price : IndexPrices, size : IndexSizes,
     size_type : {"lots", "units", "contracts"}, trade_direction : {"buy", "sell"},
     instrument_meta : IndexMetas, broker_profile : IndexBrokers]

InitIndex ==
    /\ Loaded
    /\ pnlArgs \in {Some(args) : args \in IndexArgs}
    /\ importArgs = None

NextIndex == Calculate
SpecIndex == InitIndex /\ [][NextIndex]_vars

(***************************************************************************)
(* The CSV import: the importer and its source are drawn at the start and  *)
(* the action parses the source.                                           *)
(***************************************************************************)
CsvFieldnames ==
    <<<<"s", "y", "m", "b", "o", "l">>, <<"t", "y", "p", "e">>, <<"l", "o", "t", "s">>, <<"o", "p", "e", "n", "_", "p", "r", "i", "c", "e">>, <<"c", "l", "o", "s", "e", "_", "p", "r", "i", "c", "e">>, <<"p", "r", "o", "f", "i", "t">>, <<"o", "p", "e", "n", "_", "t", "i", "m", "e">>>>

CsvRow(symbol, type, lots, open_price, close_price, profit, open_time) ==
    (<<"s", "y", "m", "b", "o", "l">> :> symbol) @@ (<<"t", "y", "p", "e">> :> type) @@ (<<"l", "o", "t", "s">> :> lots)
    @@ (<<"o", "p", "e", "n", "_", "p", "r", "i", "c", "e">> :> open_price) @@ (<<"c", "l", "o", "s", "e", "_", "p", "r", "i", "c", "e">> :> close_price)
    @@ (<<"p", "r", "o", "f", "i", "t">> :> profit) @@ (<<"o", "p", "e", "n", "_", "t", "i", "m", "e">> :> open_time)

CsvRows ==
    {CsvRow(<<"E", "U", "R", "U", "S", "D">>, <<"b", "u", "y">>, <<"0", ".", "1", "0">>, <<"1", ".", "1", "0", "0", "0">>, <<"1", ".", "1", "0", "5", "0">>, <<>>, <<"2", "0", "2", "4", "-", "0", "1", "-", "1", "5", " ", "1", "0", ":", "3", "0", ":", "0", "0">>),
     CsvRow(<<"E", "U", "R", "_", "U", "S", "D">>, <<"s", "e", "l", "l">>, <<"0", ".", "1", "0">>, <<"1", ".", "1", "0", "5", "0">>, <<"1", ".", "1", "0", "0", "0">>, <<"5", ".", "0", "0">>,
            <<"2", "0", "2", "4", "-", "0", "1", "-", "1", "6", "T", "0", "9", ":", "0", "0", ":", "0", "0">>),
     CsvRow(<<"o", "a", "n", "d", "a">>, <<"b", "u", "y">>, <<"1">>, <<"1", ".", "1", "0", "0", "0">>, <<"1", ".", "1", "0", "5", "0">>, <<"5", ".", "0", "0">>, <<"2", "0", "2", "4", "-", "0", "1", "-", "1", "7", " ", "1", "2", ":", "0", "0", ":", "0", "0">>),
     CsvRow(<<"G", "O", "L", "D">>, <<"b", "u", "y">>, <<"1">>, <<"2", "0", "0", "0", ".", "0", "0">>, <<>>, <<>>, <<"1", "7", "/", "0", "1", "/", "2", "0", "2", "4", " ", "0", "8", ":", "1", "5", ":", "0", "0">>),
     CsvRow(<<>>, <<"b", "u", "y">>, <<"1">>, <<"1", ".", "1", "0", "0", "0">>, <<"1", ".", "1", "0", "5", "0">>, <<"5", ".", "0", "0">>, <<"2", "0", "2", "4", "-", "0", "1", "-", "1", "8", " ", "1", "0", ":", "0", "0", ":", "0", "0">>),
     CsvRow(<<"X", "Y", "Z", "Z", "Y", "1", "2", "3">>, <<"b", "u", "y">>, <<"-", "2">>, <<"1", "0">>, <<"1", "2">>, <<>>, <<"y", "e", "s", "t", "e", "r", "d", "a", "y">>)}

MaxRows == 2
CsvSources ==
    {[fieldnames |-> <<>>, rows |-> <<>>]}
    \cup {[fieldnames |-> CsvFieldnames, rows |-> rows] :
              rows \in UNION {[1..n -> CsvRows] : n \in 0..MaxRows}}
ImporterBrokerIds == {GENERIC, OANDA}
ImportArgs == [self : {CSVImporter(b, FALSE) : b \in ImporterBrokerIds}, source : CsvSources]

InitImport == Loaded /\ pnlArgs = None /\ importArgs \in {Some(args) : args \in ImportArgs}

\* CSVImporter.parse on the drawn source
ParseCsv ==
    \E r \in {parse(importArgs[1].self, importArgs[1].source, fuzzyCache)} :
        /\ importCall' = Some(r.result)
        /\ fuzzyCache' = r.cache
        /\ UNCHANGED <<instruments, symbol_index, alias_index, brokers, mapCall,
                       firstCall, pnlArgs, pnlCall, importArgs,
                   type_index, reloadCall, lookupCall, parseCall, cancelRequested,
                   apiImporter, network, connCall, database, uploads, csvImporter>>

NextImport == ParseCsv
SpecImport == InitImport /\ [][NextImport]_vars

(***************************************************************************)
(* Catalog reload: reload() runs in one thread, statement by statement,    *)
(* while other threads look instruments up.  A lookup is one step.         *)
(***************************************************************************)
\* instruments.json with the GOLD alias of XAUUSD removed
EditedInstruments == [SeedInstruments EXCEPT ![2].aliases = <<<<"X", "A", "U">>>>]

\* what reload() may find on disk: a file, or no file
ReloadFiles == {Some(SeedInstruments), Some(EditedInstruments), None}

LookupSymbols == {<<"E", "U", "R", "U", "S", "D">>, <<"g", "o", "l", "d">>, <<"X", "A", "U", "U", "S", "D", ".", "m">>, <<"A", "A", "P", "L">>}
LookupTypes == {"forex", "stock"}

\* the instrument the loop of _build_indexes is at
LoopInstrument == instruments[reloadCall[1].i]

ReloadAt(pc) == reloadCall # None /\ reloadCall[1].pc = pc

ReloadGoto(pc) == reloadCall' = Some([reloadCall[1] EXCEPT !.pc = pc])

\* reload() is called: _load_instruments starts; old keeps the indexes the
\* catalog had before the call
Reload(file) ==
    /\ reloadCall = None
    /\ reloadCall' = Some([pc |-> "load", file |-> file, i |-> 1, j |-> 1,
                           old |-> [symbol_index |-> symbol_index,
                                    alias_index |-> alias_index,
                                    type_index |-> type_index]])
    /\ UNCHANGED <<instruments, symbol_index, alias_index, brokers, fuzzyCache,
                   mapCall, firstCall, pnlArgs, pnlCall, importArgs, importCall,
                   type_index, lookupCall,
                   parseCall, cancelRequested,
                   apiImporter, network, connCall, database, uploads, csvImporter>>

\* _load_instruments: no file leaves the indexes alone; a file is loaded
LoadInstruments ==
    /\ ReloadAt("load")
    /\ IF IsNone(reloadCall[1].file)
       THEN instruments' = <<>> /\ reloadCall' = None
       ELSE instruments' = reloadCall[1].file[1] /\ ReloadGoto("symbol_index")
    /\ UNCHANGED <<symbol_index, alias_index, brokers, fuzzyCache,
                   mapCall, firstCall, pnlArgs, pnlCall, importArgs, importCall,
                   type_index, lookupCall,
                   parseCall, cancelRequested,
                   apiImporter, network, connCall, database, uploads, csvImporter>>

\* _build_indexes: self._symbol_index = {}
ResetSymbolIndex ==
    /\ ReloadAt("symbol_index")
    /\ symbol_index' = <<>>
    /\ ReloadGoto("alias_index")
    /\ UNCHANGED <<instruments, alias_index, brokers, fuzzyCache,
                   mapCall, firstCall, pnlArgs, pnlCall, importArgs, importCall,
                   type_index, lookupCall,
                   parseCall, cancelRequested,
                   apiImporter, network, connCall, database, uploads, csvImporter>>

\* _build_indexes: self._alias_index = {}
ResetAliasIndex ==
    /\ ReloadAt("alias_index")
    /\ alias_index' = <<>>
    /\ ReloadGoto("type_index")
    /\ UNCHANGED <<instruments, symbol_index, brokers, fuzzyCache,
                   mapCall, firstCall, pnlArgs, pnlCall, importArgs, importCall,
                   type_index, lookupCall,
                   parseCall, cancelRequested,
                   apiImporter, network, connCall, database, uploads, csvImporter>>

\* _build_indexes: self._type_index = {}, then the loop starts
ResetTypeIndex ==
    /\ ReloadAt("type_index")
    /\ type_index' = <<>>
    /\ ReloadGoto(IF instruments = <<>> THEN "popular" ELSE "symbol")
    /\ UNCHANGED <<instruments, symbol_index, alias_index, brokers, fuzzyCache,
                   mapCall, firstCall, pnlArgs, pnlCall, importArgs, importCall,
                   lookupCall,
                   parseCall, cancelRequested,
                   apiImporter, network, connCall, database, uploads, csvImporter>>

\* the loop: self._symbol_index[symbol] = instrument
IndexSymbol ==
    /\ ReloadAt("symbol")
    /\ symbol_index' = (StrUpper(LoopInstrument.symbol) :> LoopInstrument) @@ symbol_index
    /\ ReloadGoto(IF Get(LoopInstrument, "aliases", <<>>) = <<>> THEN "type" ELSE "alias")
    /\ UNCHANGED <<instruments, alias_index, brokers, fuzzyCache,
                   mapCall, firstCall, pnlArgs, pnlCall, importArgs, importCall,
                   type_index, lookupCall,
                   parseCall, cancelRequested,
                   apiImporter, network, connCall, database, uploads, csvImporter>>

\* the loop: self._alias_index[alias_upper] = symbol, alias by alias
IndexAlias ==
    /\ ReloadAt("alias")
    /\ alias_index' = (StrUpper(LoopInstrument.aliases[reloadCall[1].j])
                       :> StrUpper(LoopInstrument.symbol)) @@ alias_index
    /\ reloadCall' = Some(IF reloadCall[1].j < Len(LoopInstrument.aliases)
                          THEN [reloadCall[1] EXCEPT !.j = @ + 1]
                          ELSE [reloadCall[1] EXCEPT !.j = 1, !.pc = "type"])
    /\ UNCHANGED <<instruments, symbol_index, brokers, fuzzyCache,
                   mapCall, firstCall, pnlArgs, pnlCall, importArgs, importCall,
                   type_index, lookupCall,
                   parseCall, cancelRequested,
                   apiImporter, network, connCall, database, uploads, csvImporter>>

\* the loop: self._type_index[inst_type].append(instrument), then the next
\* instrument
IndexType ==
    /\ ReloadAt("type")
    /\ LET inst_type == Get(LoopInstrument, "type", "unknown")
       IN  type_index' = (inst_type :> Append(Get(type_index, inst_type, <<>>), LoopInstrument))
                         @@ type_index
    /\ reloadCall' = Some(IF reloadCall[1].i < Len(instruments)
                          THEN [reloadCall[1] EXCEPT !.i = @ + 1, !.pc = "symbol"]
                          ELSE [reloadCall[1] EXCEPT !.pc = "popular"])
    /\ UNCHANGED <<instruments, symbol_index, alias_index, brokers, fuzzyCache,
                   mapCall, firstCall, pnlArgs, pnlCall, importArgs, importCall,
                   lookupCall,
                   parseCall, cancelRequested,
                   apiImporter, network, connCall, database, uploads, csvImporter>>

\* _build_indexes: self._popular_symbols = [...], and reload() returns
SetPopularSymbols ==
    /\ ReloadAt("popular")
    /\ reloadCall' = None
    /\ UNCHANGED <<instruments, symbol_index, alias_index, brokers, fuzzyCache,
                   mapCall, firstCall, pnlArgs, pnlCall, importArgs, importCall,
                   type_index, lookupCall,
                   parseCall, cancelRequested,
                   apiImporter, network, connCall, database, uploads, csvImporter>>

\* what a lookup leaves behind: its result, and the file and the old indexes
\* of the reload it ran beside
LookupCall(op, arg, result) ==
    /\ lookupCall' = Some([op |-> op, arg |-> arg, result |-> result,
                           reloading |-> IF IsNone(reloadCall) THEN None
                                         ELSE Some([file |-> reloadCall[1].file,
                                                    old |-> reloadCall[1].old])])
    /\ UNCHANGED <<instruments, symbol_index, alias_index, brokers, fuzzyCache,
                   mapCall, firstCall, pnlArgs, pnlCall, importArgs, importCall,
                   type_index, reloadCall,
                   parseCall, cancelRequested,
                   apiImporter, network, connCall, database, uploads, csvImporter>>

\* another thread calls resolve_symbol
ResolveSymbol(symbol) == LookupCall("resolve_symbol", symbol, resolve_symbol(symbol))

\* another thread calls get_by_type
GetByType(inst_type) == LookupCall("get_by_type", inst_type, get_by_type(inst_type))

NextReload ==
    \/ \E file \in ReloadFiles : Reload(file)
    \/ LoadInstruments
    \/ ResetSymbolIndex
    \/ ResetAliasIndex
    \/ ResetTypeIndex
    \/ IndexSymbol
    \/ IndexAlias
    \/ IndexType
    \/ SetPopularSymbols
    \/ \E symbol \in LookupSymbols : ResolveSymbol(symbol)
    \/ \E inst_type \in LookupTypes : GetByType(inst_type)

SpecReload == Init /\ [][NextReload]_vars

(***************************************************************************)
(* Catalog search: calls of search with a query and the fuzzy tier on or   *)
(* off, the fuzzy-score cache kept between the calls.                      *)
(***************************************************************************)
SearchQueries == {<<"G", "O", "L">>, <<"g", "o", "l", "d">>, <<"S", "P", "X">>, <<"E", "U", "R">>, <<"u", "s", "d">>, <<"5", "0", "0">>, <<"e", "u", "r", "u", "s", "d", ".", "m">>, <<>>}

\* what search returned goes to lookupCall, the cache it filled to fuzzyCache
SearchCall(query, include_fuzzy, found) ==
    /\ lookupCall' = Some([op |-> "search", arg |-> query, include_fuzzy |-> include_fuzzy,
                           result |-> found.results, reloading |-> None])
    /\ fuzzyCache' = found.cache
    /\ UNCHANGED <<instruments, symbol_index, alias_index, brokers,
                   mapCall, firstCall, pnlArgs, pnlCall, importArgs, importCall,
                   type_index, reloadCall,
                   parseCall, cancelRequested,
                   apiImporter, network, connCall, database, uploads, csvImporter>>

\* catalog.search(query, include_fuzzy=include_fuzzy), limit and offset at
\* their defaults
Search(query, include_fuzzy) ==
    \E found \in {search(query, 20, 0, include_fuzzy, fuzzyCache)} :
        SearchCall(query, include_fuzzy, found)

NextSearch == \E query \in SearchQueries, include_fuzzy \in BOOLEAN : Search(query, include_fuzzy)

SpecSearch == Init /\ [][NextSearch]_vars

(***************************************************************************)
(* The P&L engines on invalid numeric input: a price or a size that is     *)
(* zero or negative.                                                       *)
(***************************************************************************)
EntryPrices == {Zero, Rat(-11, 10), Rat(11000, 10000)}
ExitPrices == {Zero, Rat(-11, 10), Rat(11052, 10000)}
Quantities == {Zero, Rat(-1, 1), Rat(10, 100)}

\* entry_price <= 0 or exit_price <= 0 or size <= 0
InvalidInput(entry_price, exit_price, size) ==
    RatLeq(entry_price, Zero) \/ RatLeq(exit_price, Zero) \/ RatLeq(size, Zero)

InvalidEngineArgs ==
    {args \in [op : {"calculate"}, instrument_symbol : EngineSymbols,
               entry_price : EntryPrices, exit_price : ExitPrices, size : Quantities,
               size_type : {"lots", "units"}, trade_direction : {"buy", "sell"},
               instrument_meta : {None}, broker_profile : {None}] :
        InvalidInput(args.entry_price, args.exit_price, args.size)}

InvalidCalculatorArgs ==
    {args \in [op : {"calculate_pnl"}, calculator : Calculators,
               entry_price : EntryPrices, exit_price : ExitPrices, size : Quantities,
               trade_type : {<<"B", "U", "Y">>, <<"S", "E", "L", "L">>}] :
        InvalidInput(args.entry_price, args.exit_price, args.size)}

InitInvalid ==
    /\ Loaded
    /\ pnlArgs \in {Some(args) : args \in InvalidEngineArgs \cup InvalidCalculatorArgs}
    /\ importArgs = None

\* PnLCalculator.calculate_pnl on the drawn arguments
CalculatorCalculatePnl ==
    /\ pnlArgs[1].op = "calculate_pnl"
    /\ \E r \in {calculator_calculate_pnl(pnlArgs[1].calculator, pnlArgs[1].entry_price,
                                          pnlArgs[1].exit_price, pnlArgs[1].size,
                                          pnlArgs[1].trade_type)} :
           pnlCall' = Some([pnl |-> r[1], pips |-> r[2]])
    /\ UNCHANGED <<instruments, symbol_index, alias_index, brokers, fuzzyCache,
                   mapCall, firstCall, pnlArgs, importArgs, importCall,
                   type_index, reloadCall, lookupCall, parseCall, cancelRequested,
                   apiImporter, network, connCall, database, uploads, csvImporter>>

NextInvalid == Calculate \/ CalculatorCalculatePnl
SpecInvalid == InitInvalid /\ [][NextInvalid]_vars

(***************************************************************************)
(* validate of the four importers (csv_importer.py, mt5_parser.py,         *)
(* oanda.py, binance.py): the errors of each trade, stored in the trade.   *)
(***************************************************************************)
ErrorIf(condition, msg) == IF condition THEN <<[msg |-> msg]>> ELSE <<>>

\* f'Low mapping confidence: {trade.mapping_confidence:.2f}'
LowConfidence(trade) ==
    IF trade.mapping_confidence < (50 * Unit) \div 100
    THEN <<[msg |-> "Low mapping confidence",
            value |-> RoundHalfEven(trade.mapping_confidence * 100, Unit)]>>
    ELSE <<>>

\* the errors CSVImporter.validate finds in one trade
csv_errors(trade) ==
    ErrorIf(trade.broker_symbol = <<>>, "Missing symbol")
    \o ErrorIf(RatLeq(trade.entry_price, Zero), "Invalid entry price")
    \o ErrorIf(RatLeq(trade.lot_size, Zero), "Invalid lot size")
    \o ErrorIf(IsNone(trade.entry_date), "Missing entry date")
    \o LowConfidence(trade)

\* the errors MT5Parser.validate finds in one trade
mt5_errors(trade) ==
    ErrorIf(trade.broker_symbol = <<>>, "Missing symbol")
    \o ErrorIf(RatLeq(trade.entry_price, Zero), "Invalid entry price")
    \o ErrorIf(RatLeq(trade.lot_size, Zero), "Invalid lot size")
    \o ErrorIf(IsNone(trade.entry_date), "Missing entry date")
    \o LowConfidence(trade)

\* the errors OANDAImporter.validate finds in one trade
oanda_errors(trade) ==
    ErrorIf(trade.broker_symbol = <<>>, "Missing instrument")
    \o ErrorIf(RatLeq(trade.entry_price, Zero), "Invalid entry price")
    \o ErrorIf(RatLeq(trade.lot_size, Zero)
               /\ (IsNone(trade.units) \/ RatLeq(trade.units[1], Zero)),
               "Invalid position size")

\* the errors BinanceImporter.validate finds in one trade
binance_errors(trade) ==
    ErrorIf(trade.broker_symbol = <<>>, "Missing symbol")
    \o ErrorIf(RatLeq(trade.entry_price, Zero), "Invalid price")
    \o ErrorIf(RatLeq(trade.lot_size, Zero), "Invalid quantity")

\* the errors the validate of the importer named finds in one trade
TradeErrors(importer, trade) ==
    IF importer = "csv" THEN csv_errors(trade)
    ELSE IF importer = "mt5" THEN mt5_errors(trade)
    ELSE IF importer = "oanda" THEN oanda_errors(trade)
    ELSE binance_errors(trade)

\* validate: for trade in trades: trade.validation_errors = errors; return trades
validate(importer, trades) ==
    [i \in 1..Len(trades) |->
        [trades[i] EXCEPT !.validation_errors = TradeErrors(importer, trades[i])]]

\* BaseImporter.preview: self.dry_run = True, then parse and validate:
\* [self, result, cache]
PreviewValidated(self, parsed) ==
    [self |-> self, cache |-> parsed.cache,
     result |-> IF parsed.result.success
                THEN [parsed.result EXCEPT !.trades = validate("csv", @)]
                ELSE parsed.result]

preview(self, source, cache) ==
    PreviewValidated([self EXCEPT !.dry_run = TRUE],
                     parse([self EXCEPT !.dry_run = TRUE], source, cache))

Importers == {"csv", "mt5", "oanda", "binance"}

\* the trades given to validate: every combination of a present or missing
\* symbol, lot size and entry date and of a high or low mapping confidence,
\* then a trade without entry price and a trade sized in units
BaseTrades ==
    {TradeRecord(<<"1">>, symbol, <<"b", "u", "y">>, "buy", lots, Rat(11, 10), None, entry_date, None,
                 None, "open", <<>>) :
        symbol \in {<<>>, <<"E", "U", "R", "U", "S", "D">>}, lots \in {Zero, Rat(10, 100)},
        entry_date \in {None, Some(<<2024, 1, 15, 10, 30, 0, 0>>)}}

ValidateTrades ==
    {[t EXCEPT !.mapping_confidence = c] : t \in BaseTrades, c \in {(30 * Unit) \div 100, Unit}}
    \cup {[t EXCEPT !.entry_price = Zero, !.mapping_confidence = Unit,
                    !.validation_errors = <<[msg |-> "stale"]>>] : t \in BaseTrades}
    \cup {[t EXCEPT !.units = Some(Rat(1000, 1)), !.mapping_confidence = Unit] : t \in BaseTrades}

MaxTrades == 2
TradeLists == UNION {[1..n -> ValidateTrades] : n \in 0..MaxTrades}

ValidateArgs == [op : {"validate"}, importer : Importers, trades : TradeLists]

InitValidate ==
    /\ Loaded
    /\ pnlArgs = None
    /\ importArgs \in {Some(args) : args \in ValidateArgs}

\* importer.validate(trades) on the drawn trades
Validate ==
    /\ importArgs[1].op = "validate"
    /\ importCall' = Some(validate(importArgs[1].importer, importArgs[1].trades))
    /\ UNCHANGED <<instruments, symbol_index, alias_index, brokers, fuzzyCache,
                   mapCall, firstCall, pnlArgs, pnlCall, importArgs,
                   type_index, reloadCall, lookupCall, parseCall, cancelRequested,
                   apiImporter, network, connCall, database, uploads, csvImporter>>

NextValidate == Validate
SpecValidate == InitValidate /\ [][NextValidate]_vars

(***************************************************************************)
(* The row functions of the CSV importer, applied to one drawn row or type *)
(* text.                                                                   *)
(***************************************************************************)
RowTypes == {<<"b", "u", "y">>, <<"s", "e", "l", "l">>, <<>>, <<"l", "o", "n", "g">>, <<"S", "H", "O", "R", "T">>, <<"B", "u", "y", " ", "L", "i", "m", "i", "t">>}
RowLots == {<<"-", "2">>, <<"0", ".", "1", "0">>, <<"-", "0", ".", "5">>, <<>>, <<"-", "0">>, <<"(", "1", ".", "5", ")">>, <<"-", "1", ",", "0", "0", "0", ".", "5", " ", "l", "o", "t", "s">>}

RowInputs ==
    {CsvRow(symbol, type, lots, <<"1", ".", "1", "0", "0", "0">>, <<>>, <<>>, <<"2", "0", "2", "4", "-", "0", "1", "-", "1", "5", " ", "1", "0", ":", "3", "0", ":", "0", "0">>) :
        symbol \in {<<"E", "U", "R", "U", "S", "D">>, <<>>}, type \in RowTypes, lots \in RowLots}

DirectionTypes ==
    {<<"b", "u", "y">>, <<"s", "e", "l", "l">>, <<"s", "h", "o", "r", "t">>, <<"l", "o", "n", "g">>, <<>>, <<"B", "u", "y", " ", "S", "t", "o", "p">>, <<"l", "o", "n", "g", " ", "p", "o", "s", "i", "t", "i", "o", "n">>, <<"B", "u", "y", " ", "L", "i", "m", "i", "t">>,
     <<"S", "E", "L", "L", " ", "L", "I", "M", "I", "T">>, <<"B">>, <<"S">>, <<"a", "s", "k">>, <<"S", "h", "o", "r", "t", " ", "S", "e", "l", "l">>, <<"b", "a", "l", "a", "n", "c", "e">>}

RowArgs ==
    [op : {"parse_row"}, self : {CSVImporter(b, FALSE) : b \in ImporterBrokerIds},
     row : RowInputs, row_num : {2}]
    \cup [op : {"parse_direction"}, trade_type : DirectionTypes]

InitRow ==
    /\ Loaded
    /\ pnlArgs = None
    /\ importArgs \in {Some(args) : args \in RowArgs}

\* self._parse_row(row, column_map, row_num) on the drawn row
ParseRow ==
    /\ importArgs[1].op = "parse_row"
    /\ importCall' = Some(parse_row(importArgs[1].self, importArgs[1].row,
                                    build_column_map(importArgs[1].self, CsvFieldnames),
                                    importArgs[1].row_num))
    /\ UNCHANGED <<instruments, symbol_index, alias_index, brokers, fuzzyCache,
                   mapCall, firstCall, pnlArgs, pnlCall, importArgs,
                   type_index, reloadCall, lookupCall, parseCall, cancelRequested,
                   apiImporter, network, connCall, database, uploads, csvImporter>>

\* self._parse_direction(trade_type) on the drawn text
ParseDirection ==
    /\ importArgs[1].op = "parse_direction"
    /\ importCall' = Some(parse_direction(importArgs[1].trade_type))
    /\ UNCHANGED <<instruments, symbol_index, alias_index, brokers, fuzzyCache,
                   mapCall, firstCall, pnlArgs, pnlCall, importArgs,
                   type_index, reloadCall, lookupCall, parseCall, cancelRequested,
                   apiImporter, network, connCall, database, uploads, csvImporter>>

NextRow == ParseRow \/ ParseDirection
SpecRow == InitRow /\ [][NextRow]_vars

(***************************************************************************)
(* The MT4/MT5 import: the tables of the statement are drawn at the start  *)
(* and the action parses them.                                             *)
(***************************************************************************)
Mt5Headers ==
    <<<<"T", "i", "c", "k", "e", "t">>, <<"S", "y", "m", "b", "o", "l">>, <<"T", "y", "p", "e">>, <<"V", "o", "l", "u", "m", "e">>, <<"O", "p", "e", "n", " ", "T", "i", "m", "e">>, <<"O", "p", "e", "n", " ", "P", "r", "i", "c", "e">>, <<"C", "l", "o", "s", "e", " ", "P", "r", "i", "c", "e">>,
      <<"P", "r", "o", "f", "i", "t">>>>

Mt5Types ==
    {<<"b", "u", "y">>, <<"s", "e", "l", "l">>, <<"b", "a", "l", "a", "n", "c", "e">>, <<"B", "a", "l", "a", "n", "c", "e">>, <<"D", "E", "P", "O", "S", "I", "T">>, <<"W", "i", "t", "h", "d", "r", "a", "w", "a", "l">>, <<"c", "r", "e", "d", "i", "t">>, <<"R", "e", "b", "a", "t", "e">>,
     <<"b", "u", "y", " ", "l", "i", "m", "i", "t">>, <<>>}

\* rows with a type of each kind, with and without a symbol, and a short row
Mt5Rows ==
    {<<<<"1", "0", "0", "1">>, <<"E", "U", "R", "U", "S", "D">>, type, <<"0", ".", "1", "0">>, <<"2", "0", "2", "4", ".", "0", "1", ".", "1", "5", " ", "1", "0", ":", "3", "0", ":", "0", "0">>, <<"1", ".", "1", "0", "0", "0">>, <<"1", ".", "1", "0", "5", "0">>,
       <<"5", ".", "0", "0">>>> : type \in Mt5Types}
    \cup {<<<<"1", "0", "0", "4">>, <<>>, type, <<"0", ".", "1", "0">>, <<"2", "0", "2", "4", ".", "0", "1", ".", "1", "5", " ", "1", "0", ":", "3", "0", ":", "0", "0">>, <<"1", ".", "1", "0", "0", "0">>, <<"1", ".", "1", "0", "5", "0">>,
            <<"5", ".", "0", "0">>>> : type \in {<<"b", "u", "y">>, <<"b", "a", "l", "a", "n", "c", "e">>}}
    \cup {<<<<"1", "0", "0", "2">>, <<"E", "U", "R", "U", "S", "D">>, <<"b", "a", "l", "a", "n", "c", "e">>>>,
          <<<<"1", "0", "0", "3">>, <<"X", "A", "U", "U", "S", "D">>, <<"s", "e", "l", "l">>, <<"1", " ", "0", "0", "0", ",", "5">>, <<"1", "5", ".", "0", "1", ".", "2", "0", "2", "4", " ", "1", "0", ":", "3", "0">>, <<"2", "0", "0", "0", ".", "0", "0">>, <<>>, <<>>>>}

MaxMt5Rows == 2
Mt5Tables ==
    {<< >>, <<[headers |-> <<<<"A", "c", "c", "o", "u", "n", "t">>, <<"N", "a", "m", "e">>>>, rows |-> << <<<<"1">>, <<"x">>>> >>]>>}
    \cup {<<[headers |-> <<<<"A", "c", "c", "o", "u", "n", "t">>>>, rows |-> << <<<<"1">>>> >>],
            [headers |-> Mt5Headers, rows |-> rows]>> :
              rows \in UNION {[1..n -> Mt5Rows] : n \in 0..MaxMt5Rows}}

Mt5Args == [op : {"mt5_parse"}, self : {MT5Parser(MT4_GENERIC, FALSE)}, tables : Mt5Tables]

InitMt5 ==
    /\ Loaded
    /\ pnlArgs = None
    /\ importArgs \in {Some(args) : args \in Mt5Args}

\* MT5Parser.parse on the drawn statement
ParseMt5 ==
    \E r \in {mt5_parse(importArgs[1].self, importArgs[1].tables, fuzzyCache)} :
        /\ importCall' = Some(r.result)
        /\ fuzzyCache' = r.cache
        /\ UNCHANGED <<instruments, symbol_index, alias_index, brokers, mapCall,
                       firstCall, pnlArgs, pnlCall, importArgs,
                       type_index, reloadCall, lookupCall, parseCall, cancelRequested,
                       apiImporter, network, connCall, database, uploads, csvImporter>>

NextMt5 == ParseMt5
SpecMt5 == InitMt5 /\ [][NextMt5]_vars

(***************************************************************************)
(* The CSV import row by row: parse runs one pass of its row loop per      *)
(* step, and the caller may ask for cancellation between the rows.  No     *)
(* statement of the importers reads such a request.                        *)
(***************************************************************************)
CancelSources ==
    {[fieldnames |-> CsvFieldnames, rows |-> rows] :
        rows \in UNION {[1..n -> CsvRows] : n \in 1..MaxRows}}

CancelArgs == [self : {CSVImporter(GENERIC, d) : d \in BOOLEAN}, source : CancelSources]

InitCancel ==
    /\ Loaded
    /\ pnlArgs = None
    /\ importArgs \in {Some(args) : args \in CancelArgs}

\* parse is called: the headers are read, the column map is built and the row
\* loop is about to start
StartParse ==
    /\ IsNone(parseCall)
    /\ IsNone(importCall)
    /\ parseCall' = Some([rows |-> importArgs[1].source.rows, row_num |-> 1,
                          column_map |-> build_column_map(importArgs[1].self,
                                                          importArgs[1].source.fieldnames),
                          trades |-> <<>>, errors |-> <<>>])
    /\ UNCHANGED <<instruments, symbol_index, alias_index, brokers, fuzzyCache,
                   mapCall, firstCall, pnlArgs, pnlCall, importArgs, importCall,
                   type_index, reloadCall, lookupCall, cancelRequested,
                   apiImporter, network, connCall, database, uploads, csvImporter>>

\* one pass of `for row in reader`
ParseNextRow ==
    /\ ~IsNone(parseCall)
    /\ parseCall[1].rows # <<>>
    /\ \E trade \in {parse_row(importArgs[1].self, Head(parseCall[1].rows),
                               parseCall[1].column_map, parseCall[1].row_num + 1)} :
           parseCall' = Some([parseCall[1] EXCEPT
                                  !.rows = Tail(@), !.row_num = @ + 1,
                                  !.trades = IF IsNone(trade) THEN @ ELSE Append(@, trade[1])])
    /\ UNCHANGED <<instruments, symbol_index, alias_index, brokers, fuzzyCache,
                   mapCall, firstCall, pnlArgs, pnlCall, importArgs, importCall,
                   type_index, reloadCall, lookupCall, cancelRequested,
                   apiImporter, network, connCall, database, uploads, csvImporter>>

\* after the last row: the symbols are mapped, the P&L is calculated and the
\* ImportResult is returned
FinishParse ==
    /\ ~IsNone(parseCall)
    /\ parseCall[1].rows = <<>>
    /\ \E r \in {ParseMapped(importArgs[1].self,
                             map_symbols(importArgs[1].self, parseCall[1].trades, fuzzyCache),
                             parseCall[1].errors)} :
           /\ importCall' = Some(r.result)
           /\ fuzzyCache' = r.cache
    /\ parseCall' = None
    /\ UNCHANGED <<instruments, symbol_index, alias_index, brokers,
                   mapCall, firstCall, pnlArgs, pnlCall, importArgs,
                   type_index, reloadCall, lookupCall, cancelRequested,
                   apiImporter, network, connCall, database, uploads, csvImporter>>

\* the caller asks to cancel while rows are still to be parsed; the request
\* keeps the records parsed by then
RequestCancel ==
    /\ ~IsNone(parseCall)
    /\ parseCall[1].rows # <<>>
    /\ IsNone(cancelRequested)
    /\ cancelRequested' = Some([row_num |-> parseCall[1].row_num,
                                trades |-> parseCall[1].trades])
    /\ UNCHANGED <<instruments, symbol_index, alias_index, brokers, fuzzyCache,
                   mapCall, firstCall, pnlArgs, pnlCall, importArgs, importCall,
                   type_index, reloadCall, lookupCall, parseCall,
                   apiImporter, network, connCall, database, uploads, csvImporter>>

NextCancel == StartParse \/ ParseNextRow \/ FinishParse \/ RequestCancel
SpecCancel == InitCancel /\ [][NextCancel]_vars

(***************************************************************************)
(* The REST API importers: one importer is constructed, then               *)
(* test_connection and parse are called on it in any order, the            *)
(* environment of each call chosen freely.                                 *)
(***************************************************************************)
ApiKeys == {None, Some(<<>>), Some(<<"k", "e", "y">>)}
ApiSecrets == {None, Some(<<>>), Some(<<"0", "0", "1", "-", "0", "0", "2">>)}

ApiImporters ==
    {OANDAImporter(k, a, p) : k \in ApiKeys, a \in ApiSecrets, p \in BOOLEAN}
        \cup {BinanceImporter(k, s, f) : k \in ApiKeys, s \in ApiSecrets, f \in BOOLEAN}

ApiEnvs == [requests : BOOLEAN, server : {"ok", "denied", "down"}]
OandaSources == {None, Some([count |-> 100])}
BinanceSources == {None, Some([symbol |-> Some(<<"B", "T", "C", "U", "S", "D", "T">>)])}
MaxRequests == 2

\* trade histories as the Binance endpoints return them: /api/v3/myTrades has
\* no realizedPnl, /fapi/v1/userTrades has one
SpotHistory ==
    (<<"B", "T", "C", "U", "S", "D", "T">> :> <<[id |-> 1, qty |-> <<"0", ".", "5">>, price |-> <<"1", "0", "0", ".", "5">>, isBuyer |-> TRUE,
                      time |-> [seconds |-> 1705314600, millis |-> 0],
                      commission |-> <<"0", ".", "1">>, commissionAsset |-> <<"B", "N", "B">>]>>)
        @@ (<<"S", "O", "L", "U", "S", "D", "T">> :> <<[id |-> 7, qty |-> <<"2">>, price |-> <<"1", "0">>, isBuyer |-> FALSE,
                             time |-> [seconds |-> 1705314700, millis |-> 123],
                             commission |-> <<"0">>, commissionAsset |-> <<"S", "O", "L">>]>>)

FuturesHistory ==
    (<<"B", "T", "C", "U", "S", "D", "T">> :> <<[id |-> 1, qty |-> <<"0", ".", "5">>, price |-> <<"1", "0", "0", ".", "5">>, isBuyer |-> TRUE,
                      time |-> [seconds |-> 1705314600, millis |-> 0],
                      commission |-> <<"0", ".", "1">>, realizedPnl |-> <<"2", ".", "5">>]>>)
        @@ (<<"S", "O", "L", "U", "S", "D", "T">> :> <<[id |-> 7, qty |-> <<"2">>, price |-> <<"1", "0">>, isBuyer |-> FALSE,
                             time |-> [seconds |-> 1705314700, millis |-> 123],
                             realizedPnl |-> <<"-", "1", ".", "5">>],
                            [id |-> 8, qty |-> <<"1">>, price |-> <<"1", "1">>, isBuyer |-> TRUE,
                             time |-> [seconds |-> 1705401000, millis |-> 0],
                             realizedPnl |-> <<"0">>]>>)

\* a history whose second ETHUSDT trade has a quantity that is not a number
MalformedHistory ==
    (<<"B", "T", "C", "U", "S", "D", "T">> :> <<[id |-> 1, qty |-> <<"0", ".", "5">>, price |-> <<"1", "0", "0", ".", "5">>, isBuyer |-> TRUE,
                      time |-> [seconds |-> 1705314600, millis |-> 0],
                      realizedPnl |-> <<"2", ".", "5">>]>>)
        @@ (<<"E", "T", "H", "U", "S", "D", "T">> :> <<[id |-> 3, qty |-> <<"1">>, price |-> <<"2", "0">>, isBuyer |-> TRUE,
                             time |-> [seconds |-> 1705314600, millis |-> 0],
                             realizedPnl |-> <<"1">>],
                            [id |-> 4, qty |-> <<"n", "/", "a">>, price |-> <<"2", "0">>, isBuyer |-> TRUE,
                             time |-> [seconds |-> 1705314600, millis |-> 0],
                             realizedPnl |-> <<"1">>]>>)

Histories(self) == IF self.use_futures THEN {FuturesHistory, MalformedHistory} ELSE {SpotHistory}
FailingSets == {{}, {<<"E", "T", "H", "U", "S", "D", "T">>}, {<<"B", "T", "C", "U", "S", "D", "T">>, <<"D", "O", "T", "U", "S", "D", "T">>}}

\* the environments of a BinanceImporter.parse: one answer for every request
\* and no history, or a server that answers and denies the requests for some
\* of the symbols
BinanceEnvs(self) ==
    {[requests |-> env.requests, server |-> env.server, failing |-> {}, history |-> <<>>] :
         env \in ApiEnvs}
        \cup [requests : {TRUE}, server : {"ok"}, failing : FailingSets, history : Histories(self)]

ConstructImporter ==
    /\ IsNone(apiImporter)
    /\ apiImporter' \in {Some(self) : self \in ApiImporters}
    /\ UNCHANGED <<instruments, symbol_index, alias_index, brokers, fuzzyCache,
                   mapCall, firstCall, pnlArgs, pnlCall, importArgs, importCall,
                   type_index, reloadCall, lookupCall, parseCall, cancelRequested,
                   network, connCall, database, uploads, csvImporter>>

ApiCalled(self) ==
    /\ ~IsNone(apiImporter)
    /\ apiImporter[1].broker_id = self
    /\ Len(network) < MaxRequests

OandaTestConnection ==
    /\ ApiCalled(OANDA)
    /\ \E env \in ApiEnvs :
           \E r \in {oanda_test_connection(apiImporter[1], env)} :
               /\ apiImporter' = Some(r.self)
               /\ network' = network \o r.sent
               /\ connCall' = Some(r.result)
    /\ UNCHANGED <<instruments, symbol_index, alias_index, brokers, fuzzyCache,
                   mapCall, firstCall, pnlArgs, pnlCall, importArgs, importCall,
                   type_index, reloadCall, lookupCall, parseCall, cancelRequested, database, uploads, csvImporter>>

BinanceTestConnection ==
    /\ ApiCalled(BINANCE)
    /\ \E env \in ApiEnvs :
           \E r \in {binance_test_connection(apiImporter[1], env)} :
               /\ apiImporter' = Some(r.self)
               /\ network' = network \o r.sent
               /\ connCall' = Some(r.result)
    /\ UNCHANGED <<instruments, symbol_index, alias_index, brokers, fuzzyCache,
                   mapCall, firstCall, pnlArgs, pnlCall, importArgs, importCall,
                   type_index, reloadCall, lookupCall, parseCall, cancelRequested, database, uploads, csvImporter>>

OandaParse ==
    /\ ApiCalled(OANDA)
    /\ \E env \in ApiEnvs, source \in OandaSources :
           \E r \in {oanda_parse(apiImporter[1], source, env, fuzzyCache)} :
               /\ apiImporter' = Some(r.self)
               /\ network' = network \o r.sent
               /\ importCall' = Some(r.result)
               /\ fuzzyCache' = r.cache
    /\ UNCHANGED <<instruments, symbol_index, alias_index, brokers,
                   mapCall, firstCall, pnlArgs, pnlCall, importArgs,
                   type_index, reloadCall, lookupCall, parseCall, cancelRequested,
                   connCall, database, uploads, csvImporter>>

BinanceParse ==
    /\ ApiCalled(BINANCE)
    /\ \E env \in BinanceEnvs(apiImporter[1]), source \in BinanceSources :
           \E r \in {binance_parse(apiImporter[1], source, env, fuzzyCache)} :
               /\ apiImporter' = Some(r.self)
               /\ network' = network \o r.sent
               /\ importArgs' = Some([self |-> apiImporter[1], source |-> source, env |-> env])
               /\ importCall' = Some(r.result)
               /\ fuzzyCache' = r.cache
    /\ UNCHANGED <<instruments, symbol_index, alias_index, brokers,
                   mapCall, firstCall, pnlArgs, pnlCall,
                   type_index, reloadCall, lookupCall, parseCall, cancelRequested,
                   connCall, database, uploads, csvImporter>>

InitApi ==
    /\ Loaded
    /\ pnlArgs = None
    /\ importArgs = None

NextApi ==
    \/ ConstructImporter
    \/ OandaTestConnection
    \/ BinanceTestConnection
    \/ OandaParse
    \/ BinanceParse

SpecApi == InitApi /\ [][NextApi]_vars

(***************************************************************************)
(* Upload requests of the web application: two workers serve requests,     *)
(* statement by statement, against one database.                           *)
(***************************************************************************)
TicketFieldnames == <<<<"t", "i", "c", "k", "e", "t">>>> \o CsvFieldnames
TicketRow(ticket, row) == (<<"t", "i", "c", "k", "e", "t">> :> ticket) @@ row

\* the files of the model: a trade that validates, one whose symbol is
\* unknown, both, a file without rows, a trade whose P&L has to be computed
UploadFiles ==
    <<[fieldnames |-> TicketFieldnames,
       rows |-> <<TicketRow(<<"1", "0", "0", "1">>, CsvRow(<<"E", "U", "R", "U", "S", "D">>, <<"s", "e", "l", "l">>, <<"0", ".", "1", "0">>, <<"1", ".", "1", "0", "5", "0">>,
                                            <<"1", ".", "1", "0", "0", "0">>, <<"5", ".", "0", "0">>, <<"2", "0", "2", "4", "-", "0", "1", "-", "1", "6", " ", "0", "9", ":", "0", "0", ":", "0", "0">>))>>],
      [fieldnames |-> TicketFieldnames,
       rows |-> <<TicketRow(<<"1", "0", "0", "2">>, CsvRow(<<"X", "Y", "Z", "Z", "Y", "1", "2", "3">>, <<"b", "u", "y">>, <<"1">>, <<"1", "0">>, <<"1", "2">>,
                                            <<"2", ".", "0", "0">>, <<"2", "0", "2", "4", "-", "0", "1", "-", "1", "7", " ", "0", "9", ":", "0", "0", ":", "0", "0">>))>>],
      [fieldnames |-> TicketFieldnames,
       rows |-> <<TicketRow(<<"1", "0", "0", "2">>, CsvRow(<<"X", "Y", "Z", "Z", "Y", "1", "2", "3">>, <<"b", "u", "y">>, <<"1">>, <<"1", "0">>, <<"1", "2">>,
                                            <<"2", ".", "0", "0">>, <<"2", "0", "2", "4", "-", "0", "1", "-", "1", "7", " ", "0", "9", ":", "0", "0", ":", "0", "0">>)),
                  TicketRow(<<"1", "0", "0", "1">>, CsvRow(<<"E", "U", "R", "U", "S", "D">>, <<"s", "e", "l", "l">>, <<"0", ".", "1", "0">>, <<"1", ".", "1", "0", "5", "0">>,
                                            <<"1", ".", "1", "0", "0", "0">>, <<"5", ".", "0", "0">>, <<"2", "0", "2", "4", "-", "0", "1", "-", "1", "6", " ", "0", "9", ":", "0", "0", ":", "0", "0">>))>>],
      [fieldnames |-> TicketFieldnames, rows |-> <<>>],
      [fieldnames |-> <<>>, rows |-> <<>>]>>
UserIds == {1, 2}
MaxSources == 2

\* a worker takes a request: upload_file up to the duplicate check
StartUpload(w, user_id, file, dry_run) ==
    /\ uploads[w].pc = "idle"
    /\ database.next_id <= MaxSources
    /\ uploads' = [uploads EXCEPT ![w] =
                       upload_check(database.sources, user_id, file,
                                    get_file_hash(file, UploadFiles), dry_run)]
    /\ UNCHANGED <<instruments, symbol_index, alias_index, brokers, fuzzyCache,
                   mapCall, firstCall, pnlArgs, pnlCall, importArgs, importCall,
                   type_index, reloadCall, lookupCall, parseCall, cancelRequested,
                   apiImporter, network, connCall, database, csvImporter>>

\* importer.parse, importer.validate and the flushed ImportedTradeSource
ParseUpload(w) ==
    /\ uploads[w].pc = "parse"
    /\ \E r \in {parse(CSVImporter(GENERIC, uploads[w].dry_run), uploads[w].file,
                         fuzzyCache)} :
           /\ fuzzyCache' = r.cache
           /\ \E request \in {upload_parsed(uploads[w], r.result,
                                             validate("csv", r.result.trades),
                                             database.next_id)} :
                  /\ uploads' = [uploads EXCEPT ![w] = request]
                  /\ database' = [database EXCEPT !.next_id =
                                      IF request.pc = "loop" THEN @ + 1 ELSE @]
    /\ UNCHANGED <<instruments, symbol_index, alias_index, brokers,
                   mapCall, firstCall, pnlArgs, pnlCall, importArgs, importCall,
                   type_index, reloadCall, lookupCall, parseCall, cancelRequested,
                   apiImporter, network, connCall, csvImporter>>

\* one iteration of the loop over result.trades
ImportRecord(w) ==
    /\ uploads[w].pc = "loop"
    /\ uploads' = [uploads EXCEPT ![w] =
                       IF uploads[w].i > Len(uploads[w].trades)
                       THEN [uploads[w] EXCEPT !.pc = "commit"]
                       ELSE upload_record(uploads[w], uploads[w].trades[uploads[w].i],
                                          database.trades)]
    /\ UNCHANGED <<instruments, symbol_index, alias_index, brokers, fuzzyCache,
                   mapCall, firstCall, pnlArgs, pnlCall, importArgs, importCall,
                   type_index, reloadCall, lookupCall, parseCall, cancelRequested,
                   apiImporter, network, connCall, database, csvImporter>>

\* db.session.commit(): the flush, then the rows of the session are committed
CommitUpload(w) ==
    /\ uploads[w].pc = "commit"
    /\ IF FlushFails(uploads[w])
       THEN /\ uploads' = [uploads EXCEPT ![w] = RolledBack(uploads[w])]
            /\ UNCHANGED database
       ELSE /\ uploads' = [uploads EXCEPT ![w] = Idle(Some(Imported))]
            /\ database' = [database EXCEPT
                               !.sources = @ \cup {CompletedSource(uploads[w])},
                               !.trades = @ \cup Flushed(uploads[w]).flushed]
    /\ UNCHANGED <<instruments, symbol_index, alias_index, brokers, fuzzyCache,
                   mapCall, firstCall, pnlArgs, pnlCall, importArgs, importCall,
                   type_index, reloadCall, lookupCall, parseCall, cancelRequested,
                   apiImporter, network, connCall, csvImporter>>

InitUpload == Loaded /\ pnlArgs = None /\ importArgs = None

NextUpload ==
    \E w \in Workers :
        \/ \E user_id \in UserIds, k \in 1..Len(UploadFiles), dry_run \in BOOLEAN :
               StartUpload(w, user_id, UploadFiles[k], dry_run)
        \/ ParseUpload(w)
        \/ ImportRecord(w)
        \/ CommitUpload(w)

SpecUpload == InitUpload /\ [][NextUpload]_vars

(***************************************************************************)
(* The entry point of the importers: map_broker_symbol and _map_symbols    *)
(* applied to drawn symbols, the ids of the loaded brokers among them.     *)
(***************************************************************************)
EntrySymbols == MapSymbols \cup {OANDA, MT4_GENERIC, <<"O", "a", "n", "d", "a">>}
EntryBrokerIds == BrokerIds \cup {GENERIC}
EntryArgs ==
    [op : {"map_broker_symbol", "map_symbols"}, broker_symbol : EntrySymbols,
     broker_id : EntryBrokerIds]

\* a record of a source file with the drawn symbol
EntryTrade(broker_symbol) ==
    TradeRecord(None, broker_symbol, <<"b", "u", "y">>, "buy", Rat(1, 1), Rat(11000, 10000),
                None, None, None, Some(Rat(5, 1)), "closed", <<>>)

InitEntry == Loaded /\ pnlArgs = None /\ importArgs \in {Some(args) : args \in EntryArgs}

\* map_broker_symbol(broker_symbol, broker_id) on the drawn arguments
MapBrokerSymbol ==
    /\ importArgs[1].op = "map_broker_symbol"
    /\ \E r \in {map_broker_symbol(importArgs[1].broker_symbol, importArgs[1].broker_id,
                                    fuzzyCache)} :
           /\ importCall' = Some(r.value)
           /\ fuzzyCache' = r.cache
    /\ UNCHANGED <<instruments, symbol_index, alias_index, brokers,
                   mapCall, firstCall, pnlArgs, pnlCall, importArgs,
                   type_index, reloadCall, lookupCall, parseCall, cancelRequested,
                   apiImporter, network, connCall, database, uploads, csvImporter>>

\* importer._map_symbols([trade]) for a record with the drawn symbol
MapSymbolsOfImporter ==
    /\ importArgs[1].op = "map_symbols"
    /\ \E r \in {map_symbols(CSVImporter(importArgs[1].broker_id, FALSE),
                              <<EntryTrade(importArgs[1].broker_symbol)>>, fuzzyCache)} :
           /\ importCall' = Some([raised |-> r.raised, trades |-> r.trades])
           /\ fuzzyCache' = r.cache
    /\ UNCHANGED <<instruments, symbol_index, alias_index, brokers,
                   mapCall, firstCall, pnlArgs, pnlCall, importArgs,
                   type_index, reloadCall, lookupCall, parseCall, cancelRequested,
                   apiImporter, network, connCall, database, uploads, csvImporter>>

NextEntry == MapBrokerSymbol \/ MapSymbolsOfImporter
SpecEntry == InitEntry /\ [][NextEntry]_vars

(***************************************************************************)
(* One importer instance on which preview and parse are called in any      *)
(* order.                                                                  *)
(***************************************************************************)
\* the sources of at most one row
PreviewSources == {source \in CsvSources : Len(source.rows) <= 1}

InitPreview ==
    /\ Loaded
    /\ pnlArgs = None
    /\ importArgs \in {Some([broker_id |-> b]) : b \in ImporterBrokerIds}

\* CSVImporter(broker_id)
ConstructCsvImporter ==
    /\ IsNone(csvImporter)
    /\ csvImporter' = Some(CSVImporter(importArgs[1].broker_id, FALSE))
    /\ UNCHANGED <<instruments, symbol_index, alias_index, brokers, fuzzyCache,
                   mapCall, firstCall, pnlArgs, pnlCall, importArgs, importCall,
                   type_index, reloadCall, lookupCall, parseCall, cancelRequested,
                   apiImporter, network, connCall, database, uploads>>

\* importer.preview(source)
PreviewSource(source) ==
    /\ ~IsNone(csvImporter)
    /\ \E r \in {preview(csvImporter[1], source, fuzzyCache)} :
           /\ csvImporter' = Some(r.self)
           /\ importCall' = Some([op |-> "preview", source |-> source, result |-> r.result])
           /\ fuzzyCache' = r.cache
    /\ UNCHANGED <<instruments, symbol_index, alias_index, brokers,
                   mapCall, firstCall, pnlArgs, pnlCall, importArgs,
                   type_index, reloadCall, lookupCall, parseCall, cancelRequested,
                   apiImporter, network, connCall, database, uploads>>

\* importer.parse(source)
ParseSource(source) ==
    /\ ~IsNone(csvImporter)
    /\ \E r \in {parse(csvImporter[1], source, fuzzyCache)} :
           /\ importCall' = Some([op |-> "parse", source |-> source, result |-> r.result])
           /\ fuzzyCache' = r.cache
    /\ UNCHANGED <<instruments, symbol_index, alias_index, brokers,
                   mapCall, firstCall, pnlArgs, pnlCall, importArgs,
                   type_index, reloadCall, lookupCall, parseCall, cancelRequested,
                   apiImporter, network, connCall, database, uploads, csvImporter>>

NextPreview ==
    \/ ConstructCsvImporter
    \/ \E source \in PreviewSources : PreviewSource(source) \/ ParseSource(source)

SpecPreview == InitPreview /\ [][NextPreview]_vars

(***************************************************************************)
(* The phases of parse one after the other: the rows are parsed, the       *)
(* symbols are mapped, the P&L is completed.  Each phase keeps the records *)
(* it was given beside the records it returns.                             *)
(***************************************************************************)
PhaseArgs ==
    [self : {CSVImporter(b, FALSE) : b \in ImporterBrokerIds}, source : CancelSources]

InitPhases ==
    /\ Loaded
    /\ pnlArgs = None
    /\ importArgs \in {Some(args) : args \in PhaseArgs}

PhaseAt(phase) == ~IsNone(parseCall) /\ parseCall[1].phase = phase

\* the row loop of parse
ParseRowsPhase ==
    /\ IsNone(parseCall)
    /\ parseCall' = Some([phase |-> "parsed",
                          parsed |-> ParseRows(importArgs[1].self, importArgs[1].source.rows,
                                               build_column_map(importArgs[1].self,
                                                                importArgs[1].source.fieldnames),
                                               1, <<>>),
                          mapped |-> None, priced |-> None])
    /\ UNCHANGED <<instruments, symbol_index, alias_index, brokers, fuzzyCache,
                   mapCall, firstCall, pnlArgs, pnlCall, importArgs, importCall,
                   type_index, reloadCall, lookupCall, cancelRequested,
                   apiImporter, network, connCall, database, uploads, csvImporter>>

\* trades = self._map_symbols(trades)
MapSymbolsPhase ==
    /\ PhaseAt("parsed")
    /\ \E r \in {map_symbols(importArgs[1].self, parseCall[1].parsed, fuzzyCache)} :
           /\ parseCall' = Some([parseCall[1] EXCEPT
                                    !.phase = "mapped",
                                    !.mapped = Some([raised |-> r.raised,
                                                     trades |-> r.trades])])
           /\ fuzzyCache' = r.cache
    /\ UNCHANGED <<instruments, symbol_index, alias_index, brokers,
                   mapCall, firstCall, pnlArgs, pnlCall, importArgs, importCall,
                   type_index, reloadCall, lookupCall, cancelRequested,
                   apiImporter, network, connCall, database, uploads, csvImporter>>

\* trades = self._calculate_pnl(trades)
CalculatePnlPhase ==
    /\ PhaseAt("mapped")
    /\ IsNone(parseCall[1].mapped[1].raised)
    /\ \E r \in {importer_calculate_pnl(parseCall[1].mapped[1].trades, fuzzyCache)} :
           /\ parseCall' = Some([parseCall[1] EXCEPT
                                    !.phase = "priced",
                                    !.priced = Some([raised |-> r.raised,
                                                     trades |-> r.trades])])
           /\ fuzzyCache' = r.cache
    /\ UNCHANGED <<instruments, symbol_index, alias_index, brokers,
                   mapCall, firstCall, pnlArgs, pnlCall, importArgs, importCall,
                   type_index, reloadCall, lookupCall, cancelRequested,
                   apiImporter, network, connCall, database, uploads, csvImporter>>

NextPhases == ParseRowsPhase \/ MapSymbolsPhase \/ CalculatePnlPhase
SpecPhases == InitPhases /\ [][NextPhases]_vars

(***************************************************************************)
(* Table selection of the MT4/5 parser: statements of up to MaxTables      *)
(* tables, with and without trade headers, of one to three rows.           *)
(***************************************************************************)
DealHeaders == <<<<"D", "e", "a", "l">>, <<"T", "i", "m", "e">>, <<"D", "i", "r", "e", "c", "t", "i", "o", "n">>, <<"V", "o", "l", "u", "m", "e">>, <<"P", "r", "i", "c", "e">>>>
DealRow == <<<<"2", "0", "0", "1">>, <<"2", "0", "2", "4", ".", "0", "1", ".", "1", "5", " ", "1", "0", ":", "3", "0", ":", "0", "0">>, <<"i", "n">>, <<"0", ".", "1", "0">>, <<"1", ".", "1", "0", "0", "0">>>>
ShortRow == <<<<"2", "0", "0", "1">>, <<"2", "0", "2", "4", ".", "0", "1", ".", "1", "5", " ", "1", "0", ":", "3", "0", ":", "0", "0">>, <<"i", "n">>, <<"0", ".", "1", "0">>>>
StatementTables ==
    {[headers |-> Mt5Headers,
      rows |-> << <<<<"1", "0", "0", "1">>, <<"E", "U", "R", "U", "S", "D">>, <<"b", "u", "y">>, <<"0", ".", "1", "0">>, <<"2", "0", "2", "4", ".", "0", "1", ".", "1", "5", " ", "1", "0", ":", "3", "0", ":", "0", "0">>, <<"1", ".", "1", "0", "0", "0">>,
                    <<"1", ".", "1", "0", "5", "0">>, <<"5", ".", "0", "0">>>> >>],
     [headers |-> <<<<"A", "c", "c", "o", "u", "n", "t">>, <<"N", "a", "m", "e">>>>, rows |-> << <<<<"1">>, <<"x">>>> >>],
     [headers |-> <<<<"I", "n", "s", "t", "r", "u", "m", "e", "n", "t">>, <<"A", "c", "t", "i", "o", "n">>>>, rows |-> << <<<<"E", "U", "R", "U", "S", "D">>, <<"b", "u", "y">>>> >>]}
    \cup {[headers |-> headers, rows |-> [i \in 1..n |-> row]] :
              headers \in {<<>>, DealHeaders}, n \in 1..3, row \in {DealRow, ShortRow}}
MaxTables == 2
Statements == UNION {[1..n -> StatementTables] : n \in 0..MaxTables}
StatementArgs ==
    [op : {"find_trades_table", "mt5_parse"}, self : {MT5Parser(MT4_GENERIC, FALSE)},
     tables : Statements]

InitStatement ==
    /\ Loaded
    /\ pnlArgs = None
    /\ importArgs \in {Some(args) : args \in StatementArgs}

\* self._find_trades_table(parser.tables) on the drawn statement
FindTradesTable ==
    /\ importArgs[1].op = "find_trades_table"
    /\ importCall' = Some(find_trades_table(importArgs[1].tables))
    /\ UNCHANGED <<instruments, symbol_index, alias_index, brokers, fuzzyCache,
                   mapCall, firstCall, pnlArgs, pnlCall, importArgs,
                   type_index, reloadCall, lookupCall, parseCall, cancelRequested,
                   apiImporter, network, connCall, database, uploads, csvImporter>>

\* MT5Parser.parse on the drawn statement
ParseStatement ==
    /\ importArgs[1].op = "mt5_parse"
    /\ \E r \in {mt5_parse(importArgs[1].self, importArgs[1].tables, fuzzyCache)} :
           /\ importCall' = Some(r.result)
           /\ fuzzyCache' = r.cache
    /\ UNCHANGED <<instruments, symbol_index, alias_index, brokers,
                   mapCall, firstCall, pnlArgs, pnlCall, importArgs,
                   type_index, reloadCall, lookupCall, parseCall, cancelRequested,
                   apiImporter, network, connCall, database, uploads, csvImporter>>

NextStatement == FindTradesTable \/ ParseStatement
SpecStatement == InitStatement /\ [][NextStatement]_vars

(***************************************************************************)
(* Properties of the CSV import (SpecImport)                               *)
(***************************************************************************)
\* a row with a symbol the catalog resolves, a close price and no profit
RowQualifies(row) ==
    /\ ~IsNone(resolve_symbol(row[<<"s", "y", "m", "b", "o", "l">>]))
    /\ StrStrip(row[<<"c", "l", "o", "s", "e", "_", "p", "r", "i", "c", "e">>]) # <<>>
    /\ StrStrip(row[<<"p", "r", "o", "f", "i", "t">>]) = <<>>

ScenarioARow ==
    CsvRow(<<"E", "U", "R", "U", "S", "D">>, <<"b", "u", "y">>, <<"0", ".", "1", "0">>, <<"1", ".", "1", "0", "0", "0">>, <<"1", ".", "1", "0", "5", "0">>, <<>>, <<"2", "0", "2", "4", "-", "0", "1", "-", "1", "5", " ", "1", "0", ":", "3", "0", ":", "0", "0">>)

\* the pnl of PnLEngine.calculate for a record, its lot_size taken as lots
EnginePnl(trade) ==
    calculate(SymbolOf(trade), trade.entry_price, trade.exit_price[1], trade.lot_size,
              "lots", trade.direction, None, None, "USD").pnl

\* C1: for every CSV source whose rows all have a resolvable symbol, a close
\* price and no profit value, parse returns success with one record per row,
\* each with profit_loss set to the engine's pnl for (entry_price, exit_price,
\* lot_size as lots, direction); the row EURUSD, buy, 0.10, 1.1000, 1.1050
\* gives direction 'buy' and profit_loss > 0.
C1_CsvPnlCompleted ==
    (/\ ~IsNone(importCall)
     /\ importArgs[1].source.fieldnames # <<>>
     /\ importArgs[1].source.rows # <<>>
     /\ \A i \in DOMAIN importArgs[1].source.rows :
            RowQualifies(importArgs[1].source.rows[i]))
    => /\ importCall[1].success
       /\ Len(importCall[1].trades) = Len(importArgs[1].source.rows)
       /\ \A i \in DOMAIN importCall[1].trades :
              /\ importCall[1].trades[i].profit_loss
                     = Some(EnginePnl(importCall[1].trades[i]))
              /\ importArgs[1].source.rows[i] = ScenarioARow
                 => /\ importCall[1].trades[i].direction = "buy"
                    /\ RatLess(Zero, importCall[1].trades[i].profit_loss[1])

\* the records row parsing alone yields for the drawn source
RowRecords ==
    ParseRows(importArgs[1].self, importArgs[1].source.rows,
              build_column_map(importArgs[1].self, importArgs[1].source.fieldnames),
              1, <<>>)

\* C2: a failure confined to one row, in row parsing, symbol mapping or P&L
\* calculation, never makes parse return success=false: whenever the source
\* has readable headers the result is a success, and every row that yields a
\* record is either returned in trades or reported in errors.
C2_RowFailureIsLocal ==
    (~IsNone(importCall) /\ importArgs[1].source.fieldnames # <<>>)
    => /\ importCall[1].success
       /\ Len(importCall[1].trades) + Len(importCall[1].errors) = Len(RowRecords)

(***************************************************************************)
(* Properties of the P&L engines (SpecPnl)                                 *)
(***************************************************************************)
\* a finished PnLEngine.calculate call that took the forex branch
ForexCall ==
    /\ ~IsNone(pnlArgs)
    /\ pnlArgs[1].op = "calculate"
    /\ ~IsNone(pnlCall)
    /\ Get(MetaOrDefault(pnlArgs[1].instrument_meta,
                         get_instrument_metadata(pnlArgs[1].instrument_symbol)),
           "type", "unknown") = "forex"

\* the price moved in the trade's favour, or against it
Favourable ==
    \/ pnlArgs[1].trade_direction = "buy"
       /\ RatLess(pnlArgs[1].entry_price, pnlArgs[1].exit_price)
    \/ pnlArgs[1].trade_direction = "sell"
       /\ RatLess(pnlArgs[1].exit_price, pnlArgs[1].entry_price)
Unfavourable ==
    \/ pnlArgs[1].trade_direction = "buy"
       /\ RatLess(pnlArgs[1].exit_price, pnlArgs[1].entry_price)
    \/ pnlArgs[1].trade_direction = "sell"
       /\ RatLess(pnlArgs[1].entry_price, pnlArgs[1].exit_price)

\* the units of the position, from the arguments of the call
UnitsOfCall(meta) ==
    ForexUnits(pnlArgs[1].size, pnlArgs[1].size_type,
               LotRule(pnlArgs[1].broker_profile, "forex",
                       Get(meta, "contract_size", <<100000, 1>>)))

\* the price move times the units is at least one cent
AtLeastOneCent ==
    RatLeq(Rat(1, 100),
           RatMul(RatAbs(RatSub(pnlArgs[1].exit_price, pnlArgs[1].entry_price)),
                  UnitsOfCall(MetaOrDefault(pnlArgs[1].instrument_meta,
                                            get_instrument_metadata(
                                                pnlArgs[1].instrument_symbol)))))

\* the statement of C3 as written: the sign of pnl is strict for every forex
\* trade and every size type
C3_StrictSign ==
    ForexCall
    => /\ Favourable => RatLess(Zero, pnlCall[1].pnl)
       /\ Unfavourable => RatLess(pnlCall[1].pnl, Zero)

\* C3: for every forex trade with positive prices and size, and every size
\* type, pnl >= 0 when the price moved in the trade's favour (buy and exit >
\* entry, sell and exit < entry) and pnl <= 0 when it moved against it; the
\* sign is strict whenever the price move times the units is at least 0.01.
C3_ForexSign ==
    ForexCall
    => /\ Favourable => /\ RatLeq(Zero, pnlCall[1].pnl)
                        /\ AtLeastOneCent => RatLess(Zero, pnlCall[1].pnl)
       /\ Unfavourable => /\ RatLeq(pnlCall[1].pnl, Zero)
                          /\ AtLeastOneCent => RatLess(pnlCall[1].pnl, Zero)

\* a forex sell closed below its entry with a positive pnl
C3_Witness ==
    /\ ForexCall
    /\ pnlArgs[1].trade_direction = "sell"
    /\ pnlArgs[1].size_type = "units"
    /\ Favourable
    /\ AtLeastOneCent
    /\ RatLess(Zero, pnlCall[1].pnl)

\* C4: for every instrument type, direction, entry > 0, quantity > 0 and
\* target P&L, calculate_pnl at the exit price reverse_calculate_exit returns
\* gives a pnl within 0.01 of the target.
C4_RoundTrip ==
    (/\ ~IsNone(pnlArgs)
     /\ pnlArgs[1].op = "round_trip"
     /\ ~IsNone(pnlCall)
     /\ ~IsNone(pnlCall[1].pnl))
    => RatLeq(RatAbs(RatSub(pnlCall[1].pnl[1], pnlArgs[1].target_pnl)), Rat(1, 100))

(***************************************************************************)
(* Properties of the mapper (SpecMap, SpecRepeat)                          *)
(***************************************************************************)
\* the last call was made for a broker with a profile
KnownBrokerCall == ~IsNone(mapCall) /\ mapCall[1].broker_id \in DOMAIN brokers

\* what the earliest succeeding tier must return, None when none succeeds
ExpectedTier(exact, folded, pattern, instrument) ==
    IF ~IsNone(exact)
    THEN Some([match_type |-> "direct", confidence |-> Unit, canonical |-> exact[1]])
    ELSE IF ~IsNone(folded)
    THEN Some([match_type |-> "direct_case_insensitive",
               confidence |-> (95 * Unit) \div 100, canonical |-> folded[1]])
    ELSE IF ~IsNone(pattern)
    THEN Some([match_type |-> "pattern", confidence |-> (90 * Unit) \div 100,
               canonical |-> pattern[1].canonical_symbol])
    ELSE IF ~IsNone(instrument)
    THEN Some([match_type |-> "normalized", confidence |-> (85 * Unit) \div 100,
               canonical |-> instrument[1].symbol])
    ELSE None

TierAgrees(result, expected) ==
    IF IsNone(expected) THEN result.match_type \in {"fuzzy", "unmapped"}
    ELSE /\ result.match_type = expected[1].match_type
         /\ result.confidence = expected[1].confidence
         /\ result.canonical_symbol = expected[1].canonical

ExpectedOfCall(broker_symbol, broker, broker_id) ==
    ExpectedTier(MappingsFind(Get(broker, "symbol_mappings", <<>>), broker_symbol, FALSE),
                 MappingsFind(Get(broker, "symbol_mappings", <<>>), broker_symbol, TRUE),
                 try_pattern_mapping(broker_symbol, broker, broker_id),
                 resolve_symbol(mapper_normalize(broker_symbol)))

\* C5: for a broker with a known profile map_symbol returns the result of the
\* earliest tier that succeeds, in the order exact key (1.0, 'direct'),
\* case-insensitive key (0.95), first pattern whose templated symbol resolves
\* (0.9, 'pattern'), normalized symbol resolving (0.85, 'normalized'); fuzzy or
\* unmapped only when none succeeds; EUR_USD under oanda gives EURUSD with
\* confidence >= 0.9.
C5_TierOrder ==
    KnownBrokerCall
    => /\ TierAgrees(mapCall[1].result,
                     ExpectedOfCall(mapCall[1].broker_symbol,
                                    brokers[mapCall[1].broker_id], mapCall[1].broker_id))
       /\ (mapCall[1].broker_symbol = <<"E", "U", "R", "_", "U", "S", "D">> /\ mapCall[1].broker_id = OANDA)
          => /\ mapCall[1].result.canonical_symbol = <<"E", "U", "R", "U", "S", "D">>
             /\ mapCall[1].result.confidence >= (90 * Unit) \div 100

\* EUR_USD under oanda, where the direct lookup and a pattern both succeed
C5_Witness ==
    /\ KnownBrokerCall
    /\ mapCall[1].broker_symbol = <<"E", "U", "R", "_", "U", "S", "D">>
    /\ mapCall[1].result.match_type = "direct"
    /\ ~IsNone(try_pattern_mapping(mapCall[1].broker_symbol,
                                   brokers[mapCall[1].broker_id], mapCall[1].broker_id))

Direct == {"direct", "direct_case_insensitive"}

\* the pairs (higher tier, lower tier) of the ordering as C6 states it, with
\* generic_normalized counted as a normalized result
StatedAbove ==
    (Direct \X {"pattern", "normalized", "generic_normalized", "fuzzy", "unmapped"})
    \cup ({"pattern"} \X {"normalized", "generic_normalized", "fuzzy", "unmapped"})
    \cup ({"normalized", "generic_normalized"} \X {"fuzzy", "unmapped"})
    \cup {<<"fuzzy", "unmapped">>}

\* the pairs of the ordering that holds: generic_normalized is below direct
\* and pattern and above unmapped, and is not compared with fuzzy
HoldsAbove == StatedAbove \ {<<"generic_normalized", "fuzzy">>}

\* the two results a run of SpecRepeat holds, in both orders
ResultPairs ==
    IF IsNone(firstCall) \/ IsNone(mapCall) THEN {}
    ELSE {<<firstCall[1].result, mapCall[1].result>>,
          <<mapCall[1].result, firstCall[1].result>>}

OrderedBy(above) ==
    \A pair \in ResultPairs :
        /\ <<pair[1].match_type, pair[2].match_type>> \in above
           => pair[1].confidence > pair[2].confidence
        /\ pair[1].match_type = "unmapped" => pair[1].confidence = (30 * Unit) \div 100

\* the statement of C6 as written: every normalized result, generic_normalized
\* included, has a confidence above every fuzzy result's
C6_StatedOrdering == OrderedBy(StatedAbove)

\* C6: for any brokers and symbols, every direct result's confidence > every
\* pattern result's > every 'normalized' result's > every fuzzy result's > the
\* unmapped confidence 0.3; an unknown broker's 'generic_normalized' result is
\* below every direct and pattern result and above unmapped.
C6_ConfidenceOrdering == OrderedBy(HoldsAbove)

\* a normalized result and a fuzzy result of two calls
C6_Witness ==
    /\ ~IsNone(firstCall)
    /\ firstCall[1].result.match_type = "normalized"
    /\ mapCall[1].result.match_type = "fuzzy"

\* the broker suffixes the normalization is to strip
StatedSuffixes == {<<".", "m">>, <<".", "p", "r", "o">>, <<".", "e", "c", "n">>, <<".", "r", "a", "w">>, <<"m", "i", "c", "r", "o">>, <<"m", "i", "n", "i">>}

\* the catalog symbols S with broker_symbol = S + suffix in some letter case
SuffixedFrom(broker_symbol) ==
    {s \in DOMAIN symbol_index :
        \E suffix \in StatedSuffixes : StrUpper(broker_symbol) = s \o StrUpper(suffix)}

\* C7: for every catalog symbol S and suffix in {.m, .pro, .ecn, .raw, micro,
\* mini} in any letter case, map_symbol(S + suffix, broker) for a broker
\* profile with no direct or pattern rule for it returns canonical_symbol S
\* through the normalization tier.
C7_SuffixNormalized ==
    (/\ KnownBrokerCall
     /\ IsNone(try_direct_mapping(mapCall[1].broker_symbol,
                                  brokers[mapCall[1].broker_id], mapCall[1].broker_id))
     /\ IsNone(try_pattern_mapping(mapCall[1].broker_symbol,
                                   brokers[mapCall[1].broker_id], mapCall[1].broker_id)))
    => \A s \in SuffixedFrom(mapCall[1].broker_symbol) :
           /\ mapCall[1].result.canonical_symbol = s
           /\ mapCall[1].result.match_type = "normalized"

\* no direct, pattern or normalized tier resolves the symbol of the last call
NoTierResolves ==
    /\ ~IsNone(mapCall)
    /\ IsNone(resolve_symbol(mapper_normalize(mapCall[1].broker_symbol)))
    /\ mapCall[1].broker_id \in DOMAIN brokers
       => /\ IsNone(try_direct_mapping(mapCall[1].broker_symbol,
                                       brokers[mapCall[1].broker_id],
                                       mapCall[1].broker_id))
          /\ IsNone(try_pattern_mapping(mapCall[1].broker_symbol,
                                        brokers[mapCall[1].broker_id],
                                        mapCall[1].broker_id))

\* the decision on the best search result: accepted from 0.6 at 0.8 of its
\* score, to within one part in Unit, with a warning naming both symbols
FuzzyDecision(result, broker_symbol, found) ==
    IF found # <<>> /\ found[1]._score >= (60 * Unit) \div 100
    THEN /\ result.match_type = "fuzzy"
         /\ result.canonical_symbol = found[1].symbol
         /\ 10 * result.confidence <= 8 * found[1]._score
         /\ 8 * found[1]._score < 10 * result.confidence + 10
         /\ ~IsNone(result.warnings)
         /\ \E i \in DOMAIN result.warnings[1] :
                /\ result.warnings[1][i].msg = "Fuzzy matched"
                /\ result.warnings[1][i].original = broker_symbol
                /\ result.warnings[1][i].matched = found[1].symbol
    ELSE result.match_type = "unmapped"

\* C8: when no direct, pattern or normalized tier resolves a broker symbol and
\* the best catalog search result for the normalized symbol has score >= 0.6,
\* map_symbol accepts it: match_type 'fuzzy', canonical_symbol the candidate's
\* symbol, confidence = score x 0.8, and a warning naming the original and the
\* matched symbol; when the best score is below 0.6 the result is 'unmapped'.
C8_FuzzyAcceptance ==
    NoTierResolves
    => FuzzyDecision(mapCall[1].result, mapCall[1].broker_symbol,
                     search(mapper_normalize(mapCall[1].broker_symbol), 5, 0, TRUE,
                            <<>>).results)

\* a symbol accepted by the fuzzy step for a known broker
C8_Witness ==
    /\ NoTierResolves
    /\ mapCall[1].broker_id \in DOMAIN brokers
    /\ mapCall[1].result.match_type = "fuzzy"
    /\ mapCall[1].result.confidence < (80 * Unit) \div 100

MappingResultFields ==
    {"canonical_symbol", "original_symbol", "broker_id", "confidence", "match_type",
     "instrument_metadata", "warnings"}

MatchTypes ==
    {"direct", "direct_case_insensitive", "pattern", "normalized", "generic_normalized",
     "fuzzy", "unmapped"}

\* C9: for every string symbol and every broker id map_symbol returns a
\* MappingResult; an unmapped result has confidence exactly 0.3,
\* canonical_symbol equal to the normalized input, no instrument metadata and
\* a warning that no mapping was found, which for a broker with a known
\* profile is the only warning; 'XYZZY123' is unmapped.
C9_NeverFails ==
    ~IsNone(mapCall)
    => /\ DOMAIN mapCall[1].result = MappingResultFields
       /\ mapCall[1].result.match_type \in MatchTypes
       /\ mapCall[1].result.original_symbol = mapCall[1].broker_symbol
       /\ mapCall[1].result.broker_id = mapCall[1].broker_id
       /\ mapCall[1].broker_symbol = <<"X", "Y", "Z", "Z", "Y", "1", "2", "3">>
          => mapCall[1].result.match_type = "unmapped"
       /\ mapCall[1].result.match_type = "unmapped"
          => /\ mapCall[1].result.confidence = (30 * Unit) \div 100
             /\ mapCall[1].result.canonical_symbol
                    = mapper_normalize(mapCall[1].broker_symbol)
             /\ IsNone(mapCall[1].result.instrument_metadata)
             /\ ~IsNone(mapCall[1].result.warnings)
             /\ \E i \in DOMAIN mapCall[1].result.warnings[1] :
                    mapCall[1].result.warnings[1][i]
                        = UnmappedWarning(mapCall[1].broker_symbol)
             /\ mapCall[1].broker_id \in DOMAIN brokers
                => Len(mapCall[1].result.warnings[1]) = 1

\* a symbol with separators that nothing maps, for a known broker
C9_Witness ==
    /\ KnownBrokerCall
    /\ mapCall[1].broker_symbol = <<"A", "B", "C", "_", "D", "E", "F">>
    /\ mapCall[1].result.match_type = "unmapped"
    /\ mapCall[1].result.canonical_symbol = <<"A", "B", "C", "D", "E", "F">>

\* the kept call and the last call have the same arguments
SameArguments ==
    /\ ~IsNone(firstCall)
    /\ ~IsNone(mapCall)
    /\ firstCall[1].broker_symbol = mapCall[1].broker_symbol
    /\ firstCall[1].broker_id = mapCall[1].broker_id

\* C10: two calls map_symbol(s, b) with the same arguments return
\* MappingResults equal in every field, whichever other symbols were mapped
\* between the two calls.
C10_Repeatable == SameArguments => firstCall[1].result = mapCall[1].result

\* the same arguments again after calls with other arguments, with warnings
C10_Witness ==
    /\ SameArguments
    /\ firstCall[1].others
    /\ ~IsNone(mapCall[1].result.warnings)

(***************************************************************************)
(* Properties of the catalog reload (SpecReload)                           *)
(***************************************************************************)
\* the three indexes _build_indexes makes of a file
IndexesOf(file) ==
    [symbol_index |-> BuildSymbolIndex(file), alias_index |-> BuildAliasIndex(file),
     type_index |-> BuildTypeIndex(file)]

\* the indexes a reload ends with: those of its file, or the old ones when
\* there is no file
NewIndexes(reloading) ==
    IF IsNone(reloading.file) THEN reloading.old ELSE IndexesOf(reloading.file[1])

NormalizedIn(idx, normalized) ==
    IF normalized \in DOMAIN idx.symbol_index THEN normalized
    ELSE IF normalized \in DOMAIN idx.alias_index THEN idx.alias_index[normalized]
    ELSE normalized

ResolveKeysIn(idx, upper, normalized) ==
    IF upper \in DOMAIN idx.symbol_index THEN Some(idx.symbol_index[upper])
    ELSE IF upper \in DOMAIN idx.alias_index
    THEN (IF idx.alias_index[upper] \in DOMAIN idx.symbol_index
          THEN Some(idx.symbol_index[idx.alias_index[upper]]) ELSE None)
    ELSE IF normalized \in DOMAIN idx.symbol_index THEN Some(idx.symbol_index[normalized])
    ELSE IF normalized \in DOMAIN idx.alias_index
    THEN (IF idx.alias_index[normalized] \in DOMAIN idx.symbol_index
          THEN Some(idx.symbol_index[idx.alias_index[normalized]]) ELSE None)
    ELSE None

\* what a lookup returns from a complete set of indexes
LookupIn(idx, op, arg) ==
    IF op = "get_by_type" THEN Get(idx.type_index, arg, <<>>)
    ELSE ResolveKeysIn(idx, StrStrip(StrUpper(arg)),
             NormalizedIn(idx, StripCatalogSuffix(StripSeparators(StrStrip(StrUpper(arg))))))

\* C11: a lookup that runs beside a reload returns what the complete old
\* indexes or the complete new indexes give, never the result of an empty or
\* partly filled index.
C11_ReloadAtomic ==
    (lookupCall # None /\ lookupCall[1].reloading # None) =>
        lookupCall[1].result \in
            {LookupIn(lookupCall[1].reloading[1].old, lookupCall[1].op, lookupCall[1].arg),
             LookupIn(NewIndexes(lookupCall[1].reloading[1]), lookupCall[1].op, lookupCall[1].arg)}

(***************************************************************************)
(* Properties of the catalog search (SpecSearch)                           *)
(***************************************************************************)
\* the scores of the tiers a candidate satisfies for a query, tier by tier as
\* stated: exact, starts-with, alias exact, alias starts-with, contains,
\* alias contains, fuzzy
TierScores(symbol, display, aliases, query_upper, query_normalized, include_fuzzy) ==
    (IF symbol = query_upper \/ symbol = query_normalized THEN {Unit} ELSE {})
    \cup (IF StartsWith(symbol, query_upper) THEN {(90 * Unit) \div 100} ELSE {})
    \cup (IF \E i \in 1..Len(aliases) : aliases[i] = query_upper \/ aliases[i] = query_normalized
          THEN {(85 * Unit) \div 100} ELSE {})
    \cup (IF \E i \in 1..Len(aliases) : StartsWith(aliases[i], query_upper)
          THEN {(75 * Unit) \div 100} ELSE {})
    \cup (IF Contains(symbol, query_upper) \/ Contains(display, query_upper)
          THEN {(70 * Unit) \div 100} ELSE {})
    \cup (IF \E i \in 1..Len(aliases) : Contains(aliases[i], query_upper)
          THEN {(65 * Unit) \div 100} ELSE {})
    \cup (IF include_fuzzy THEN {FuzzyTier(fuzzy_score(<<>>, query_upper, symbol)).score}
          ELSE {})

\* the highest score among the tiers a returned instrument satisfies
BestTierScore(call, instrument) ==
    Max(TierScores(StrUpper(instrument.symbol),
                   StrUpper(Get(instrument, "display_name", <<>>)),
                   UpperAll(Get(instrument, "aliases", <<>>)),
                   StrStrip(StrUpper(call.arg)), normalize_symbol(call.arg),
                   call.include_fuzzy))

\* the results are in non-increasing score order, ties in ascending symbol order
SearchOrdered(results) ==
    \A i \in 1..(Len(results) - 1) :
        \/ results[i]["_score"] > results[i + 1]["_score"]
        \/ /\ results[i]["_score"] = results[i + 1]["_score"]
           /\ StrLess(results[i].symbol, results[i + 1].symbol)

SearchCallOf(query) ==
    lookupCall # None /\ lookupCall[1].op = "search" /\ lookupCall[1].arg = query

\* C12: every instrument a search for a non-empty query returns has the score
\* of the best tier it satisfies, and the results are ordered by score, then
\* by symbol.
C12_BestTierScore ==
    (lookupCall # None /\ lookupCall[1].op = "search" /\ lookupCall[1].arg # <<>>) =>
        /\ \A i \in 1..Len(lookupCall[1].result) :
               lookupCall[1].result[i]["_score"]
                   = BestTierScore(lookupCall[1], lookupCall[1].result[i])
        /\ SearchOrdered(lookupCall[1].result)

(***************************************************************************)
(* Properties of the P&L engines on invalid input (SpecInvalid)            *)
(***************************************************************************)
\* the outcome is the typed validation failure, not a result
RejectedInvalidInput(outcome) ==
    /\ "raised" \in DOMAIN outcome
    /\ outcome.raised = Some("InvalidInput")
    /\ "pnl" \notin DOMAIN outcome

\* C13: a call of calculate with a zero or negative entry price, exit price or
\* size ends in the validation failure InvalidInput and returns no result with
\* a numeric pnl.
C13_InvalidRejected ==
    (pnlCall # None
     /\ InvalidInput(pnlArgs[1].entry_price, pnlArgs[1].exit_price, pnlArgs[1].size)) =>
        RejectedInvalidInput(pnlCall[1])

(***************************************************************************)
(* Properties of validate (SpecValidate)                                   *)
(***************************************************************************)
\* the validity of a trade record as stated
ValidRecord(trade) ==
    /\ trade.broker_symbol # <<>>
    /\ RatLess(Zero, trade.entry_price)
    /\ RatLess(Zero, trade.lot_size)
    /\ ~IsNone(trade.entry_date)

\* validate returned the trades it was given, in their order, changed in
\* validation_errors only
SameRecords(given, returned) ==
    /\ Len(returned) = Len(given)
    /\ \A i \in 1..Len(given) :
           [returned[i] EXCEPT !.validation_errors = <<>>]
               = [given[i] EXCEPT !.validation_errors = <<>>]

\* C14: validate of every importer returns the records it was given, in their
\* order, and leaves validation_errors empty exactly in the valid records:
\* symbol present, entry price and lot size positive, entry date present.
C14_ValidationErrors ==
    (importCall # None) =>
        /\ SameRecords(importArgs[1].trades, importCall[1])
        /\ \A i \in 1..Len(importCall[1]) :
               (importCall[1][i].validation_errors = <<>>) <=> ValidRecord(importCall[1][i])

(***************************************************************************)
(* Row accounting of the CSV import (SpecImport)                           *)
(***************************************************************************)
\* C15: in a successful CSV import every data row of the source is accounted
\* for: the number of rows is total_parsed plus total_skipped plus the number
\* of errors and warnings, so a row without a symbol counts as skipped.
C15_RowsAccounted ==
    (~IsNone(importCall) /\ importCall[1].success) =>
        Len(importArgs[1].source.rows)
            = importCall[1].total_parsed + importCall[1].total_skipped
              + Len(importCall[1].errors) + Len(importCall[1].warnings)

(***************************************************************************)
(* Properties of the CSV row functions (SpecRow)                           *)
(***************************************************************************)
\* the text of a logical field of the drawn row
RowField(field) ==
    get_value(importArgs[1].row, build_column_map(importArgs[1].self, CsvFieldnames), field)

\* _parse_row was applied to the drawn row and produced a record
RowParsed ==
    ~IsNone(importCall) /\ importArgs[1].op = "parse_row" /\ ~IsNone(importCall[1])

\* the lots text of the drawn row parses to a negative number
NegativeLots ==
    ~IsNone(parse_float(RowField("lots"))) /\ RatLess(parse_float(RowField("lots"))[1], Zero)

Opposite(direction) == IF direction = "buy" THEN "sell" ELSE "buy"

\* the direction derived from the type column of the drawn row
TypeDirection ==
    parse_direction(IF Truthy(RowField("type")) THEN RowField("type")[1] ELSE <<>>)

\* C16: the record of a CSV row whose lots value parses to a negative number
\* has lot_size = abs(lots) and the direction opposite to the one derived from
\* the type column; no record of a CSV row has lot_size < 0.
C16_NegativeLotsFlip ==
    RowParsed =>
        /\ ~RatLess(importCall[1][1].lot_size, Zero)
        /\ NegativeLots =>
               /\ importCall[1][1].lot_size = RatAbs(parse_float(RowField("lots"))[1])
               /\ importCall[1][1].direction = Opposite(TypeDirection)

\* a 'buy' row with lots -2 gave a 'sell' record of 2 lots
C16_Witness ==
    /\ RowParsed
    /\ NegativeLots
    /\ importArgs[1].row[<<"l", "o", "t", "s">>] = <<"-", "2">>
    /\ importArgs[1].row[<<"t", "y", "p", "e">>] = <<"b", "u", "y">>
    /\ importCall[1][1].direction = "sell"
    /\ importCall[1][1].lot_size = Rat(2, 1)

\* C18: _parse_direction returns 'buy' for the empty type, 'sell' for a type
\* that contains 'sell' or 'short', and 'buy' for a type that contains 'buy'
\* or 'long' and neither 'sell' nor 'short', in any letter case.
C18_DirectionParsed ==
    (~IsNone(importCall) /\ importArgs[1].op = "parse_direction") =>
        /\ importArgs[1].trade_type = <<>> => importCall[1] = "buy"
        /\ (\/ Contains(StrLower(importArgs[1].trade_type), <<"s", "e", "l", "l">>)
            \/ Contains(StrLower(importArgs[1].trade_type), <<"s", "h", "o", "r", "t">>))
               => importCall[1] = "sell"
        /\ (/\ \/ Contains(StrLower(importArgs[1].trade_type), <<"b", "u", "y">>)
               \/ Contains(StrLower(importArgs[1].trade_type), <<"l", "o", "n", "g">>)
            /\ ~Contains(StrLower(importArgs[1].trade_type), <<"s", "e", "l", "l">>)
            /\ ~Contains(StrLower(importArgs[1].trade_type), <<"s", "h", "o", "r", "t">>))
               => importCall[1] = "buy"

(***************************************************************************)
(* Properties of the MT4/MT5 import (SpecMt5)                              *)
(***************************************************************************)
NonTradeTypes == {<<"b", "a", "l", "a", "n", "c", "e">>, <<"d", "e", "p", "o", "s", "i", "t">>, <<"w", "i", "t", "h", "d", "r", "a", "w", "a", "l">>, <<"c", "r", "e", "d", "i", "t">>, <<"r", "e", "b", "a", "t", "e">>}

\* the cell of a row under the header 'Type', if the row reaches it
TypeCell(raw_data) ==
    IF \E i \in 1..Len(raw_data.row) : i <= Len(raw_data.headers) /\ raw_data.headers[i] = <<"T", "y", "p", "e">>
    THEN Some(raw_data.row[CHOOSE i \in 1..Len(raw_data.row) :
                               i <= Len(raw_data.headers) /\ raw_data.headers[i] = <<"T", "y", "p", "e">>])
    ELSE None

\* rows of the drawn statement whose type cell is a non-trade type, in any
\* letter case
NonTradeRows ==
    {i \in 1..Len(importArgs[1].tables[2].rows) :
        /\ Len(importArgs[1].tables[2].rows[i]) >= 3
        /\ StrLower(StrStrip(importArgs[1].tables[2].rows[i][3])) \in NonTradeTypes}

\* C17: no record MT5Parser.parse returns comes from a row whose type cell is
\* balance, deposit, withdrawal, credit or rebate, in any letter case.
C17_NoBalanceRows ==
    (~IsNone(importCall) /\ importArgs[1].op = "mt5_parse") =>
        \A i \in 1..Len(importCall[1].trades) :
            \/ IsNone(TypeCell(importCall[1].trades[i].raw_data))
            \/ StrLower(StrStrip(TypeCell(importCall[1].trades[i].raw_data)[1]))
                   \notin NonTradeTypes

\* a statement with a 'Balance' row that has a symbol and a 'sell' row was
\* parsed: the import succeeded and returned the 'sell' row alone
C17_Witness ==
    /\ ~IsNone(importCall)
    /\ importArgs[1].op = "mt5_parse"
    /\ Len(importArgs[1].tables) = 2
    /\ Len(importArgs[1].tables[2].rows) = 2
    /\ NonTradeRows = {1}
    /\ importArgs[1].tables[2].rows[1][3] = <<"B", "a", "l", "a", "n", "c", "e">>
    /\ importArgs[1].tables[2].rows[1][2] = <<"E", "U", "R", "U", "S", "D">>
    /\ importCall[1].success
    /\ Len(importCall[1].trades) = 1
    /\ importCall[1].trades[1].direction = "sell"

(***************************************************************************)
(* Properties of the import status (SpecCancel)                            *)
(***************************************************************************)
ImportStatus ==
    {"pending", "parsing", "mapping", "validating", "importing",
     "completed", "failed", "cancelled"}

\* C19: the status of an import is one of the ImportStatus values, and a parse
\* that was asked to cancel between two rows ends with the status cancelled
\* and returns the records parsed by then, no more.
C19_CancelledBetweenRows ==
    ~IsNone(importCall) =>
        /\ importCall[1].status \in ImportStatus
        /\ ~IsNone(cancelRequested) =>
               /\ importCall[1].status = "cancelled"
               /\ Len(importCall[1].trades) = Len(cancelRequested[1].trades)

(***************************************************************************)
(* Properties of the REST API importers (SpecApi)                          *)
(***************************************************************************)
\* a credential that is neither missing nor empty
Present(credential) == ~IsNone(credential) /\ Len(credential[1]) > 0

HasCredentials(self) ==
    /\ Present(self.api_key)
    /\ IF self.broker_id = OANDA THEN Present(self.account_id) ELSE Present(self.api_secret)

ConfigurationErrors ==
    {<<"A", "P", "I", " ", "k", "e", "y", " ", "a", "n", "d", " ", "a", "c", "c", "o", "u", "n", "t", " ", "I", "D", " ", "a", "r", "e", " ", "r", "e", "q", "u", "i", "r", "e", "d", ".", " ", "C", "o", "n", "f", "i", "g", "u", "r", "e", " ", "i", "n", " ", "b", "r", "o", "k", "e", "r", " ", "s", "e", "t", "t", "i", "n", "g", "s", ".">>,
     <<"A", "P", "I", " ", "k", "e", "y", " ", "a", "n", "d", " ", "s", "e", "c", "r", "e", "t", " ", "a", "r", "e", " ", "r", "e", "q", "u", "i", "r", "e", "d", ".", " ", "C", "o", "n", "f", "i", "g", "u", "r", "e", " ", "i", "n", " ", "b", "r", "o", "k", "e", "r", " ", "s", "e", "t", "t", "i", "n", "g", "s", ".">>}

\* C20: an OANDA or Binance importer with a missing or empty credential never
\* has an HTTP session and never issues a request, whatever calls of parse and
\* test_connection were made on it; its parse returns success false, status
\* failed, a configuration error in errors and no trades, and its
\* test_connection reports a failure.
C20_NoAnonymousCalls ==
    (~IsNone(apiImporter) /\ ~HasCredentials(apiImporter[1])) =>
        /\ IsNone(apiImporter[1].session)
        /\ network = <<>>
        /\ ~IsNone(importCall) =>
               /\ importCall[1].success = FALSE
               /\ importCall[1].status = "failed"
               /\ \E i \in DOMAIN importCall[1].errors :
                      importCall[1].errors[i] \in ConfigurationErrors
               /\ importCall[1].trades = <<>>
        /\ ~IsNone(connCall) => connCall[1].success = FALSE

\* parse and test_connection were both called on an importer whose key is the
\* empty string
C20_Witness ==
    /\ ~IsNone(apiImporter)
    /\ apiImporter[1].api_key = Some(<<>>)
    /\ ~IsNone(importCall)
    /\ ~IsNone(connCall)

\* the symbols of one parse whose fetch failed (no session could be made, the
\* server was down or denied the request), and the tickets the server holds
\* for the others, in symbol order
FetchFailed(args, symbol) ==
    \/ ~args.env.requests /\ IsNone(args.self.session)
    \/ args.env.server # "ok"
    \/ symbol \in args.env.failing

FailedSymbols(args) == SelectSeq(get_traded_symbols, LAMBDA symbol : FetchFailed(args, symbol))

RECURSIVE HeldTickets(_, _)
HeldTickets(args, symbols) ==
    IF symbols = <<>> THEN <<>>
    ELSE (IF FetchFailed(args, Head(symbols)) THEN <<>>
          ELSE [i \in DOMAIN HistoryOf(args.env, Head(symbols)) |->
                    <<Head(symbols), IntToStr(HistoryOf(args.env, Head(symbols))[i].id)>>])
         \o HeldTickets(args, Tail(symbols))

ReturnedTickets(result) ==
    [i \in DOMAIN result.trades |->
         <<result.trades[i].broker_symbol, result.trades[i].broker_ticket>>]

\* a BinanceImporter.parse over the traded symbols returned, the importer
\* configured and the trade data of the server well formed
FetchedSeveral ==
    /\ ~IsNone(importArgs)
    /\ ~IsNone(importCall)
    /\ importArgs[1].self.broker_id = BINANCE
    /\ HasCredentials(importArgs[1].self)
    /\ IsNone(importArgs[1].source)
    /\ importArgs[1].env.history # MalformedHistory

\* C21: a BinanceImporter.parse over several symbols whose fetch fails for
\* some of them returns success true, the trades of the symbols whose fetch
\* succeeded in symbol order, and one error for each failed symbol, which
\* starts with that symbol.
C21_PerSymbolErrors ==
    FetchedSeveral =>
        /\ importCall[1].success = TRUE
        /\ ReturnedTickets(importCall[1]) = HeldTickets(importArgs[1], get_traded_symbols)
        /\ Len(importCall[1].errors) = Len(FailedSymbols(importArgs[1]))
        /\ \A i \in DOMAIN importCall[1].errors :
               StartsWith(importCall[1].errors[i], FailedSymbols(importArgs[1])[i] \o <<":", " ">>)

(***************************************************************************)
(* Properties of the mapping for an unknown broker (SpecMap)               *)
(***************************************************************************)
\* the keys the catalog looks a symbol up by: the symbol as given and the
\* symbol without separators and account suffix
CatalogKeys(symbol) == {symbol, StripCatalogSuffix(StripSeparators(symbol))}

\* the names of an instrument: its symbol and its aliases, in upper case
NamesOf(instrument) ==
    {StrUpper(instrument.symbol)} \cup
    {StrUpper(Get(instrument, "aliases", <<>>)[i]) :
         i \in DOMAIN Get(instrument, "aliases", <<>>)}

\* the instruments of the catalog a symbol resolves to, by symbol or alias
ResolvesTo(symbol) ==
    {instruments[i].symbol :
         i \in {j \in DOMAIN instruments : NamesOf(instruments[j]) \cap CatalogKeys(symbol) # {}}}

UnknownBrokerCall == ~IsNone(mapCall) /\ mapCall[1].broker_id \notin DOMAIN brokers

\* C22: for a broker id without a profile, a symbol whose normalized form
\* resolves in the catalog by symbol or alias is mapped to that instrument with
\* confidence exactly 0.7 and match type generic_normalized; any other symbol
\* gets a fuzzy or an unmapped result; no result is a direct or a pattern
\* match, and the warnings of every result contain the unknown-broker warning.
C22_UnknownBroker ==
    UnknownBrokerCall =>
        /\ mapCall[1].result.match_type \in {"generic_normalized", "fuzzy", "unmapped"}
        /\ ResolvesTo(mapper_normalize(mapCall[1].broker_symbol)) # {} =>
               /\ mapCall[1].result.match_type = "generic_normalized"
               /\ mapCall[1].result.confidence * 10 = 7 * Unit
               /\ mapCall[1].result.canonical_symbol
                      \in ResolvesTo(mapper_normalize(mapCall[1].broker_symbol))
        /\ ResolvesTo(mapper_normalize(mapCall[1].broker_symbol)) = {} =>
               mapCall[1].result.match_type \in {"fuzzy", "unmapped"}
        /\ ~IsNone(mapCall[1].result.warnings)
        /\ \E i \in DOMAIN mapCall[1].result.warnings[1] :
               mapCall[1].result.warnings[1][i] = UnknownBrokerWarning(mapCall[1].broker_id)

\* an unknown broker's symbol was resolved through an alias of the catalog
C22_Witness ==
    /\ UnknownBrokerCall
    /\ mapCall[1].result.match_type = "generic_normalized"
    /\ mapCall[1].result.canonical_symbol # mapper_normalize(mapCall[1].broker_symbol)

(***************************************************************************)
(* Properties of the index calculation (SpecIndex)                         *)
(***************************************************************************)
\* the metadata an index calculation works from
IndexMetaOf(args) ==
    MetaOrDefault(args.instrument_meta, get_instrument_metadata(args.instrument_symbol))

\* exit - entry for buy, entry - exit for sell
SignedDifference(args) ==
    IF args.trade_direction = "buy" THEN RatSub(args.exit_price, args.entry_price)
    ELSE RatSub(args.entry_price, args.exit_price)

\* the contract size in force: the broker's rule for indices, else the metadata's
IndexContractSize(args) ==
    IF IsNone(args.broker_profile)
    THEN Get(IndexMetaOf(args), "contract_size", <<1, 1>>)
    ELSE args.broker_profile[1].lot_size_rule.indices

\* size for lots and contracts, size / contractSize for units
IndexContracts(args) ==
    IF args.size_type = "units" THEN RatDiv(args.size, IndexContractSize(args))
    ELSE args.size

IndexPnl(args) ==
    RatMul(RatMul(SignedDifference(args), Get(IndexMetaOf(args), "tick_value", <<1, 1>>)),
           IndexContracts(args))

IndexCalculated ==
    /\ ~IsNone(pnlCall)
    /\ pnlArgs[1].op = "calculate"
    /\ IndexMetaOf(pnlArgs[1]).type = "index"

\* C23: for every index trade the result's points are the direction-signed
\* price difference (exit - entry for buy, entry - exit for sell) and its pnl
\* is that difference x tick value x contracts, at two decimals, where
\* contracts is the size for lots and contracts and size / contract size for
\* units
C23_IndexPnl ==
    IndexCalculated =>
        /\ pnlCall[1].points = Some(RatRound(SignedDifference(pnlArgs[1]), 100))
        /\ pnlCall[1].pnl = RatRound(IndexPnl(pnlArgs[1]), 100)
        /\ pnlCall[1].details.contracts = IndexContracts(pnlArgs[1])

\* entry 4500, exit 4550, 1 contract, buy, tick value 1.0: pnl 50.00, points 50.0
C23_Witness ==
    /\ IndexCalculated
    /\ pnlArgs[1].entry_price = Rat(4500, 1)
    /\ pnlArgs[1].exit_price = Rat(4550, 1)
    /\ pnlArgs[1].size = Rat(1, 1)
    /\ pnlArgs[1].size_type = "contracts"
    /\ pnlArgs[1].trade_direction = "buy"
    /\ pnlArgs[1].instrument_meta = Some([type |-> "index", tick_value |-> <<1, 1>>])
    /\ pnlCall[1].pnl = Rat(50, 1)
    /\ pnlCall[1].points = Some(Rat(50, 1))

(***************************************************************************)
(* Properties of the mapping report (SpecReport)                           *)
(***************************************************************************)
Reported == ~IsNone(importCall) /\ importArgs[1].op = "report"

\* the counts of the three buckets together
BucketTotal(report) ==
    report.mapped_count + report.low_confidence_count + report.unmapped_count

\* C24: for every input list, lists with repeated symbols included, the
\* report's mapped_count + low_confidence_count + unmapped_count equals its
\* total_symbols
C24_BucketsPartitionInput ==
    Reported => BucketTotal(importCall[1]) = importCall[1].total_symbols

(***************************************************************************)
(* Properties of the upload route (SpecUpload)                             *)
(***************************************************************************)
\* the committed import sources of a user with a file hash
SourcesOf(user_id, file_hash) ==
    {s \in database.sources : s.user_id = user_id /\ s.file_hash = file_hash}

\* the committed trades of a user with a broker ticket
TradesOf(user_id, trade_id) ==
    {t \in database.trades : t.user_id = user_id /\ t.trade_id = trade_id}

\* C25: however the statements of non-dry-run uploads of one user with the
\* same file content interleave, at most one of them is accepted and creates
\* an ImportedTradeSource with that file hash, and no broker ticket is
\* stored as more than one Trade of that user
C25_OneImportPerFile ==
    /\ \A s \in database.sources : Cardinality(SourcesOf(s.user_id, s.file_hash)) <= 1
    /\ \A t \in database.trades :
           ~IsNone(t.trade_id) => Cardinality(TradesOf(t.user_id, t.trade_id)) <= 1

(***************************************************************************)
(* Properties of the importers' entry point (SpecEntry)                    *)
(***************************************************************************)
EntryCalled(op) == ~IsNone(importCall) /\ importArgs[1].op = op

\* C26: map_broker_symbol(broker_symbol, broker_id) returns a MappingResult
\* for broker_symbol under broker_id for every symbol, a symbol that is the
\* id of a loaded broker included, and _map_symbols raises for no symbol
C26_EntryPointTotal ==
    /\ EntryCalled("map_broker_symbol") =>
           /\ importCall[1].class = "MappingResult"
           /\ importCall[1].value.original_symbol = importArgs[1].broker_symbol
           /\ importCall[1].value.broker_id = importArgs[1].broker_id
    /\ EntryCalled("map_symbols") => IsNone(importCall[1].raised)

(***************************************************************************)
(* Properties of preview (SpecPreview)                                     *)
(***************************************************************************)
ParsedBy(op) == ~IsNone(importCall) /\ importCall[1].op = op

\* C27: after any sequence of preview and parse calls on one importer, a
\* successful parse returns the status completed, as on a fresh importer
C27_PreviewLeavesImporter ==
    (ParsedBy("parse") /\ importCall[1].result.success) =>
        importCall[1].result.status = "completed"

(***************************************************************************)
(* Properties of the catalog indexes between reloads (SpecReload)          *)
(***************************************************************************)
InstrumentSet == {instruments[i] : i \in 1..Len(instruments)}

\* the three indexes describe exactly the instrument list
IndexesDescribeList ==
    /\ \A instrument \in InstrumentSet :
           /\ StrUpper(instrument.symbol) \in DOMAIN symbol_index
           /\ symbol_index[StrUpper(instrument.symbol)] = instrument
    /\ \A alias \in DOMAIN alias_index : alias_index[alias] \in DOMAIN symbol_index
    /\ \A symbol \in DOMAIN symbol_index : symbol_index[symbol] \in InstrumentSet
    /\ \A inst_type \in DOMAIN type_index :
           \A i \in 1..Len(type_index[inst_type]) :
               type_index[inst_type][i] \in InstrumentSet
    /\ instruments = <<>> => \A symbol \in LookupSymbols : IsNone(resolve_symbol(symbol))

\* C28: after any sequence of loads and reloads, a reload that finds no seed
\* file included, the symbol, alias and type indexes describe exactly the
\* current instrument list: every instrument resolves by its symbol, every
\* alias points to an indexed symbol, and no lookup returns an instrument
\* that is not in the list
C28_IndexesMatchList == IsNone(reloadCall) => IndexesDescribeList

(***************************************************************************)
(* Properties of the mapping and P&L phases (SpecPhases)                   *)
(***************************************************************************)
MappingFields ==
    {"canonical_symbol", "instrument_type", "mapping_confidence", "mapping_warnings"}

\* a record without the given fields
Without(record, fields) == [f \in DOMAIN record \ fields |-> record[f]]

\* the records a phase returned, when it returned
PhaseReturned(phase) ==
    /\ ~IsNone(parseCall)
    /\ ~IsNone(parseCall[1][phase])
    /\ IsNone(parseCall[1][phase][1].raised)

MappingFrame(before, after) ==
    /\ Len(after) = Len(before)
    /\ \A i \in 1..Len(before) :
           Without(after[i], MappingFields) = Without(before[i], MappingFields)

PnlFrame(before, after) ==
    /\ Len(after) = Len(before)
    /\ \A i \in 1..Len(before) :
           /\ Without(after[i], {"profit_loss"}) = Without(before[i], {"profit_loss"})
           /\ ~IsNone(before[i].profit_loss) => after[i].profit_loss = before[i].profit_loss
           /\ IsNone(before[i].exit_price) => after[i].profit_loss = before[i].profit_loss

\* C29: the mapping step changes only canonical_symbol, instrument_type,
\* mapping_confidence and mapping_warnings of a record and the P&L step only
\* profit_loss; a broker-reported profit_loss is kept, a record without
\* exit_price keeps its null profit_loss, and ticket, symbol, direction, lot
\* size, prices and dates are never modified
C29_PhasesFrame ==
    /\ PhaseReturned("mapped") =>
           MappingFrame(parseCall[1].parsed, parseCall[1].mapped[1].trades)
    /\ PhaseReturned("priced") =>
           PnlFrame(parseCall[1].mapped[1].trades, parseCall[1].priced[1].trades)

\* both phases returned for a record with a broker-reported profit and an
\* open record without exit price, and the mapping filled in the symbol
C29_Witness ==
    /\ PhaseReturned("priced")
    /\ \E i, j \in 1..Len(parseCall[1].priced[1].trades) :
           /\ parseCall[1].priced[1].trades[i].profit_loss = Some(Rat(5, 1))
           /\ IsNone(parseCall[1].priced[1].trades[j].exit_price)
           /\ IsNone(parseCall[1].priced[1].trades[j].profit_loss)
           /\ parseCall[1].priced[1].trades[i].canonical_symbol = Some(<<"E", "U", "R", "U", "S", "D">>)
           /\ IsNone(parseCall[1].parsed[i].canonical_symbol)

(***************************************************************************)
(* Properties of the MT4/5 table selection (SpecStatement)                 *)
(***************************************************************************)
\* at least 2 data rows and at least 5 columns
IsFallbackTable(table) == Len(table.rows) >= 2 /\ Len(table.rows[1]) >= 5

FirstTable(tables, qualifies) ==
    tables[CHOOSE i \in qualifies : \A j \in qualifies : i <= j]

\* the table the selection is to return
SelectedTable(tables) ==
    LET byHeaders == {i \in 1..Len(tables) : HasTradeHeaders(tables[i].headers)}
        byShape == {i \in 1..Len(tables) : IsFallbackTable(tables[i])}
    IN  IF byHeaders # {} THEN Some(FirstTable(tables, byHeaders))
        ELSE IF byShape # {} THEN Some(FirstTable(tables, byShape))
        ELSE None

StatementCalled(op) == ~IsNone(importCall) /\ importArgs[1].op = op

NoTradesTable(result) ==
    ~result.success /\ result.message = [text |-> "Could not find trades table in statement"]

\* C30: the selection returns the first table whose headers have a symbol-like
\* and a profit-like or type-like column, else the first table with at least 2
\* data rows and at least 5 columns, and none, failing the import with 'no
\* trades table', only when no table meets either condition
C30_TableSelection ==
    /\ StatementCalled("find_trades_table") =>
           importCall[1] = SelectedTable(importArgs[1].tables)
    /\ StatementCalled("mt5_parse") =>
           (NoTradesTable(importCall[1]) <=> IsNone(SelectedTable(importArgs[1].tables)))

====
